---------------------------- MODULE Spec2Model ----------------------------
(***************************************************************************)
(* Output Manager Service of the wallet (base_layer/wallet/src/            *)
(* output_manager_service/service.rs) as a state machine.                  *)
(*                                                                         *)
(* The service is a single actor: every handler (an API request, a base    *)
(* node response, a timeout ticket) runs to completion before the next one *)
(* is taken, so every handler is one action.  Every fallible call a        *)
(* handler makes (a store call, the outbound send, the transaction         *)
(* builder) fails or succeeds by a choice of the environment, the `fail'   *)
(* input of the handler.                                                   *)
(*                                                                         *)
(* The store (OutputManagerDatabase), the key manager, the fee calculator  *)
(* and the transaction builder are collaborators whose code is not part of *)
(* the service: they are modelled from their documented contract.          *)
(***************************************************************************)
EXTENDS Integers, Sequences, FiniteSets, TLC

VARIABLES
    db,                           \* the OutputManagerDatabase (persisted)
    key_manager,                  \* self.key_manager: its in-memory key index
    base_node_public_key,         \* self.base_node_public_key: Option<CommsPublicKey>
    pending_utxo_query_keys,      \* self.pending_utxo_query_keys: request_key -> queried hashes
    utxo_query_timeout_futures,   \* the timeout tickets not fired yet (request keys)
    op,                           \* the handler the loop ran last, with its inputs
    reply,                        \* the result the last handler returned
    events,                       \* the events the last handler published, in order
    outbound,                     \* the messages the last handler sent to the base node
    reply_tx,                     \* what the last handler sent on the reply channel of a request
    request_stream,               \* the API request stream: "open" or "closed"
    base_node_response_stream,    \* the base node response stream: "open" or "closed"
    pc,                           \* start(): "loop" while it selects, "ended" after the break
    steps                         \* the handlers the loop has run (counted under Spec)

vars == <<db, key_manager, base_node_public_key, pending_utxo_query_keys,
          utxo_query_timeout_futures, op, reply, events, outbound, reply_tx,
          request_stream, base_node_response_stream, pc, steps>>

---------------------------------------------------------------------------
(* Bounds of the model *)

\* Key issuances are stopped once the in-memory key index reaches this value.
MaxKeyIndex == 2
\* Timeout tickets outstanding at once (SyncWithBaseNode is not requested beyond).
MaxTickets == 1
\* Handlers the loop runs in a behaviour of Spec, the specification of all
\* the operations together.
MaxSteps == 4

---------------------------------------------------------------------------
(* Values *)

None == "None"
TxIds == {1, 2}
\* One more key than tickets: a request key is drawn fresh, that is, different
\* from every key still pending or ticketed (OsRng.next_u64()).
RequestKeys == 1..(MaxTickets + 1)
PublicKeys == {"pkA", "pkB"}

DefaultFeatures == [coinbase |-> FALSE, maturity |-> 0]
CoinbaseFeatures(maturity_height) == [coinbase |-> TRUE, maturity |-> maturity_height]

UnblindedOutput(value, spending_key, features) ==
    [value |-> value, spending_key |-> spending_key, features |-> features]

\* Spending keys: a derived key is its key index (1, 2, ...); the keys of
\* outputs that come from outside the key manager are the negative numbers.
ExternalOutputs ==
    { UnblindedOutput(4, -1, DefaultFeatures),
      UnblindedOutput(6, -2, DefaultFeatures) }

Amounts == {3}
FeesPerGram == {0, 1}
Maturities == {1}
SplitCounts == {1, 2}

\* The commitment of an output: fixed by its value and its spending key.
Commitment(o) == <<o.value, o.spending_key>>
\* as_transaction_output(..).hash(): the hash covers the features and the
\* commitment.
OutputHash(o) == <<o.features, Commitment(o)>>

RECURSIVE SumValues(_)
SumValues(S) ==
    IF S = {} THEN 0
    ELSE LET o == CHOOSE x \in S : TRUE IN o.value + SumValues(S \ {o})

RECURSIVE SeqSum(_)
SeqSum(s) == IF s = << >> THEN 0 ELSE Head(s).value + SeqSum(Tail(s))

SeqToSet(s) == { s[i] : i \in 1..Len(s) }

---------------------------------------------------------------------------
(* Fee::calculate: weight of the transaction times the fee per gram *)

KERNEL_WEIGHT == 1
WEIGHT_PER_INPUT == 1
WEIGHT_PER_OUTPUT == 1

Fee(fee_per_gram, num_kernels, num_inputs, num_outputs) ==
    fee_per_gram * (KERNEL_WEIGHT * num_kernels + WEIGHT_PER_INPUT * num_inputs
                    + WEIGHT_PER_OUTPUT * num_outputs)

---------------------------------------------------------------------------
(* KeyManager: next_key() advances the index and derives the key from it *)

next_key(km) == [key_manager |-> km + 1, k |-> km + 1]

\* The key index a spending key was derived from (0: not a derived key).
KeyIndexOf(k) == IF k > 0 THEN k ELSE 0

---------------------------------------------------------------------------
(* The OutputStore contract.  Every operation is atomic: it returns        *)
(* [ok, db], and db is the store unchanged when ok is FALSE.               *)

PendingTransactionOutputs(spent, received, short_term) ==
    [outputs_to_be_spent |-> spent, outputs_to_be_received |-> received,
     short_term |-> short_term]

EmptyDb ==
    [unspent |-> {}, short_term_encumbered |-> {}, encumbered |-> {},
     spent |-> {}, pending_incoming |-> {}, invalid |-> {},
     pending |-> << >>,
     master_seed |-> None,
     primary_key_index |-> 0]

StoreOk(d) == [ok |-> TRUE, db |-> d]
StoreErr(d) == [ok |-> FALSE, db |-> d]

AllOutputs(d) ==
    d.unspent \cup d.short_term_encumbered \cup d.encumbered \cup d.spent
        \cup d.pending_incoming \cup d.invalid

KnownCommitment(d, o) == \E p \in AllOutputs(d) : Commitment(p) = Commitment(o)

HasRecord(d, tx_id) == tx_id \in DOMAIN d.pending

\* A map (HashMap) as a function: insert replaces the value of a key it holds.
MapInsert(m, k, v) == [x \in DOMAIN m \cup {k} |-> IF x = k THEN v ELSE m[x]]
MapRemove(m, k) == [x \in DOMAIN m \ {k} |-> m[x]]

increment_key_index(d) ==
    StoreOk([d EXCEPT !.primary_key_index = @ + 1])

add_unspent_output(d, o) ==
    IF KnownCommitment(d, o) THEN StoreErr(d)
    ELSE StoreOk([d EXCEPT !.unspent = @ \cup {o}])

accept_incoming_pending_transaction(d, tx_id, amount, key, features) ==
    LET o == UnblindedOutput(amount, key, features) IN
    IF HasRecord(d, tx_id) THEN StoreErr(d)
    ELSE StoreOk([d EXCEPT !.pending_incoming = @ \cup {o},
                           !.pending = MapInsert(@, tx_id,
                               PendingTransactionOutputs({}, {o}, TRUE))])

\* encumber_outputs that leaves the spent outputs in Unspent as well.
encumber_outputs_keeps_unspent(d, tx_id, spent, change_outputs) ==
    IF ~(spent \subseteq d.unspent) \/ HasRecord(d, tx_id) THEN StoreErr(d)
    ELSE StoreOk([d EXCEPT !.short_term_encumbered = @ \cup spent,
                           !.pending_incoming = @ \cup change_outputs,
                           !.pending = MapInsert(@, tx_id,
                               PendingTransactionOutputs(spent, change_outputs, TRUE))])

encumber_outputs(d, tx_id, spent, change_outputs) ==
    IF ~(spent \subseteq d.unspent) \/ HasRecord(d, tx_id) THEN StoreErr(d)
    ELSE StoreOk([d EXCEPT !.unspent = @ \ spent,
                           !.short_term_encumbered = @ \cup spent,
                           !.pending_incoming = @ \cup change_outputs,
                           !.pending = MapInsert(@, tx_id,
                               PendingTransactionOutputs(spent, change_outputs, TRUE))])

\* confirm_encumbered_outputs that takes the outputs out of
\* ShortTermEncumbered and does not put them into Encumbered.
confirm_encumbered_outputs_drops(d, tx_id) ==
    IF ~HasRecord(d, tx_id) THEN StoreErr(d)
    ELSE LET r == d.pending[tx_id] IN
         IF ~r.short_term THEN StoreOk(d)
         ELSE StoreOk([d EXCEPT
                 !.short_term_encumbered = @ \ r.outputs_to_be_spent,
                 !.pending[tx_id] = [r EXCEPT !.short_term = FALSE]])

confirm_encumbered_outputs(d, tx_id) ==
    IF ~HasRecord(d, tx_id) THEN StoreErr(d)
    ELSE LET r == d.pending[tx_id] IN
         IF ~r.short_term THEN StoreOk(d)
         ELSE StoreOk([d EXCEPT
                 !.short_term_encumbered = @ \ r.outputs_to_be_spent,
                 !.encumbered = @ \cup r.outputs_to_be_spent,
                 !.pending[tx_id] = [r EXCEPT !.short_term = FALSE]])

confirm_pending_transaction_outputs(d, tx_id) ==
    IF ~HasRecord(d, tx_id) THEN StoreErr(d)
    ELSE LET r == d.pending[tx_id] IN
         StoreOk([d EXCEPT
             !.short_term_encumbered = @ \ r.outputs_to_be_spent,
             !.encumbered = @ \ r.outputs_to_be_spent,
             !.spent = @ \cup r.outputs_to_be_spent,
             !.pending_incoming = @ \ r.outputs_to_be_received,
             !.unspent = @ \cup r.outputs_to_be_received,
             !.pending = MapRemove(@, tx_id)])

CancelRecord(d, tx_id) ==
    LET r == d.pending[tx_id] IN
    [d EXCEPT
        !.short_term_encumbered = @ \ r.outputs_to_be_spent,
        !.encumbered = @ \ r.outputs_to_be_spent,
        !.unspent = @ \cup r.outputs_to_be_spent,
        !.pending_incoming = @ \ r.outputs_to_be_received,
        !.pending = MapRemove(@, tx_id)]

\* cancel_pending_transaction_outputs that keeps the received outputs in
\* PendingIncoming and puts them into Unspent too.
cancel_keeps_received(d, tx_id) ==
    IF ~HasRecord(d, tx_id) THEN StoreErr(d)
    ELSE LET r == d.pending[tx_id] IN
         StoreOk([CancelRecord(d, tx_id) EXCEPT
                      !.unspent = @ \cup r.outputs_to_be_received,
                      !.pending_incoming = @ \cup r.outputs_to_be_received])

cancel_pending_transaction_outputs(d, tx_id) ==
    IF ~HasRecord(d, tx_id) THEN StoreErr(d) ELSE StoreOk(CancelRecord(d, tx_id))

RECURSIVE CancelAll(_, _)
CancelAll(d, txs) ==
    IF txs = {} THEN d
    ELSE LET t == CHOOSE x \in txs : TRUE IN CancelAll(CancelRecord(d, t), txs \ {t})

\* `older': the records whose timestamp is more than the period in the past.
timeout_pending_transaction_outputs(d, older) == StoreOk(CancelAll(d, older))

clear_short_term_encumberances(d) ==
    StoreOk(CancelAll(d, { t \in DOMAIN d.pending : d.pending[t].short_term }))

invalidate_output(d, o) ==
    IF o \notin d.unspent THEN StoreErr(d)
    ELSE StoreOk([d EXCEPT !.unspent = @ \ {o}, !.invalid = @ \cup {o}])

---------------------------------------------------------------------------
(* The service.  A handler is an operator from the service's state `self'  *)
(* and its inputs to [self, reply]: the state it leaves and the Result it  *)
(* returns.  `fail' names the fallible call that fails in this run         *)
(* ("none": no call fails).                                                *)

Self ==
    [db |-> db, key_manager |-> key_manager,
     base_node_public_key |-> base_node_public_key,
     pending_utxo_query_keys |-> pending_utxo_query_keys,
     utxo_query_timeout_futures |-> utxo_query_timeout_futures,
     outbound |-> << >>, events |-> << >>]

Ok(self, type, val) == [self |-> self, reply |-> [ok |-> TRUE, type |-> type, val |-> val]]
Err(self, error) == [self |-> self, reply |-> [ok |-> FALSE, type |-> error]]

\* A store call under the failure input: a storage error leaves the store as it was.
Call(fail, name, d, result) == IF fail = name THEN StoreErr(d) ELSE result

ReceiveBaseNodeResponse(request_key) ==
    [event |-> "ReceiveBaseNodeResponse", request_key |-> request_key]
BaseNodeSyncRequestTimedOut(request_key) ==
    [event |-> "BaseNodeSyncRequestTimedOut", request_key |-> request_key]
ErrorEvent == [event |-> "Error", request_key |-> 0]

Publish(self, e) == [self EXCEPT !.events = Append(@, e)]

\* The request keys OsRng.next_u64() can return: the keys no pending query and
\* no ticket carries.
FreshRequestKeys(self) ==
    RequestKeys \ (DOMAIN self.pending_utxo_query_keys \cup self.utxo_query_timeout_futures)

\* query_unspent_outputs_status that pushes no timeout ticket.
query_without_ticket(self, request_key, fail) ==
    IF self.base_node_public_key = None THEN Err(self, "NoBaseNodeKeysProvided")
    ELSE IF fail # "none" THEN Err(self, "OutboundError")
    ELSE LET output_hashes == { OutputHash(uo) : uo \in self.db.unspent }
         IN Ok([self EXCEPT !.pending_utxo_query_keys =
                                MapInsert(@, request_key, output_hashes)],
               "StartedBaseNodeSync", request_key)

\* query_unspent_outputs_status that does not require a base node public key.
query_without_key(self, request_key, fail) ==
    IF fail = "get_unspent_outputs" THEN Err(self, "OutputManagerStorageError")
    ELSE
        LET output_hashes == { OutputHash(uo) : uo \in self.db.unspent }
            service_request == [to |-> self.base_node_public_key,
                                request_key |-> request_key,
                                outputs |-> output_hashes]
        IN  IF fail = "send_direct" THEN Err(self, "OutboundError")
            ELSE Ok([self EXCEPT
                        !.outbound = Append(@, service_request),
                        !.pending_utxo_query_keys =
                            MapInsert(@, request_key, output_hashes),
                        !.utxo_query_timeout_futures = @ \cup {request_key}],
                    "StartedBaseNodeSync", request_key)

query_unspent_outputs_status(self, request_key, fail) ==
    IF self.base_node_public_key = None THEN Err(self, "NoBaseNodeKeysProvided")
    ELSE IF fail = "get_unspent_outputs" THEN Err(self, "OutputManagerStorageError")
    ELSE
        LET output_hashes == { OutputHash(uo) : uo \in self.db.unspent }
            service_request == [to |-> self.base_node_public_key,
                                request_key |-> request_key,
                                outputs |-> output_hashes]
        IN  IF fail = "send_direct" THEN Err(self, "OutboundError")
            ELSE Ok([self EXCEPT
                        !.outbound = Append(@, service_request),
                        !.pending_utxo_query_keys =
                            MapInsert(@, request_key, output_hashes),
                        !.utxo_query_timeout_futures = @ \cup {request_key}],
                    "StartedBaseNodeSync", request_key)

\* NotReturned that does not look at what was queried.
NotReturned_ignores_query(unspent_outputs, queried_hashes, returned_hashes) ==
    { uo \in unspent_outputs : OutputHash(uo) \notin returned_hashes }

\* NotReturned that does not look at what the response returns.
NotReturned_ignores_response(unspent_outputs, queried_hashes, returned_hashes) ==
    { uo \in unspent_outputs : OutputHash(uo) \in queried_hashes }

\* The unspent outputs a response leaves without an answer: those whose hash
\* was queried (output_hashes) less those the response returns.
NotReturned(unspent_outputs, queried_hashes, returned_hashes) ==
    { uo \in unspent_outputs :
        OutputHash(uo) \in queried_hashes /\ OutputHash(uo) \notin returned_hashes }

RECURSIVE InvalidateAll(_, _)
InvalidateAll(d, outputs) ==
    IF outputs = {} THEN d
    ELSE LET v == CHOOSE x \in outputs : TRUE
         IN InvalidateAll(invalidate_output(d, v).db, outputs \ {v})

\* handle_base_node_response that takes a response of any variant for a
\* list of outputs.
handle_response_of_any_variant(self, response, fail, done) ==
    IF response.request_key \notin DOMAIN self.pending_utxo_query_keys
    THEN Ok(self, "Unit", 0)
    ELSE
        LET queried_hashes == self.pending_utxo_query_keys[response.request_key]
            s1 == [self EXCEPT !.pending_utxo_query_keys =
                                   MapRemove(@, response.request_key)]
        IN  IF fail = "get_unspent_outputs" THEN Err(s1, "OutputManagerStorageError")
            ELSE IF response.malformed THEN Err(s1, "ConversionError")
            ELSE
                LET remaining ==
                        NotReturned(s1.db.unspent, queried_hashes, response.outputs)
                IN  IF fail = "invalidate_output" /\ done \subseteq remaining
                                                  /\ done # remaining
                    THEN Err([s1 EXCEPT !.db = InvalidateAll(@, done)],
                             "OutputManagerStorageError")
                    ELSE Ok(Publish([s1 EXCEPT !.db = InvalidateAll(@, remaining)],
                                    ReceiveBaseNodeResponse(response.request_key)),
                            "Unit", 0)

\* response: [request_key, variant, outputs (the hashes of the outputs it
\* carries that convert), malformed (one more of its outputs does not convert)].  `done': with
\* fail = "invalidate_output", the outputs invalidated before the failing call.
handle_base_node_response(self, response, fail, done) ==
    IF response.variant # "TransactionOutputs" THEN Ok(self, "Unit", 0)
    ELSE IF response.request_key \notin DOMAIN self.pending_utxo_query_keys
    THEN Ok(self, "Unit", 0)
    ELSE
        LET queried_hashes == self.pending_utxo_query_keys[response.request_key]
            s1 == [self EXCEPT !.pending_utxo_query_keys =
                                   MapRemove(@, response.request_key)]
        IN  IF fail = "get_unspent_outputs" THEN Err(s1, "OutputManagerStorageError")
            ELSE IF response.malformed THEN Err(s1, "ConversionError")
            ELSE
                LET remaining ==
                        NotReturned(s1.db.unspent, queried_hashes, response.outputs)
                IN  IF fail = "invalidate_output" /\ done \subseteq remaining
                                                  /\ done # remaining
                    THEN Err([s1 EXCEPT !.db = InvalidateAll(@, done)],
                             "OutputManagerStorageError")
                    ELSE Ok(Publish([s1 EXCEPT !.db = InvalidateAll(@, remaining)],
                                    ReceiveBaseNodeResponse(response.request_key)),
                            "Unit", 0)

\* handle_utxo_query_timeout that leaves the entry of a key that is pending.
timeout_keeps_entry(self, query_key, new_key, fail) ==
    Ok(self, "Unit", 0)

\* handle_utxo_query_timeout that queries again whether the key is pending or not.
timeout_always_queries(self, query_key, new_key, fail) ==
    LET s1 == [self EXCEPT !.pending_utxo_query_keys = MapRemove(@, query_key)]
        r == query_unspent_outputs_status(s1, new_key, fail)
    IN  IF ~r.reply.ok THEN r
        ELSE Ok(Publish(r.self, BaseNodeSyncRequestTimedOut(query_key)), "Unit", 0)

\* new_key: the request key the retry draws.
handle_utxo_query_timeout(self, query_key, new_key, fail) ==
    IF query_key \in DOMAIN self.pending_utxo_query_keys
    THEN LET s1 == [self EXCEPT !.pending_utxo_query_keys = MapRemove(@, query_key)]
             r == query_unspent_outputs_status(s1, new_key, fail)
         IN  IF ~r.reply.ok THEN r
             ELSE Ok(Publish(r.self, BaseNodeSyncRequestTimedOut(query_key)), "Unit", 0)
    ELSE Ok(self, "Unit", 0)

\* set_base_node_public_key that queries at every call.
set_base_node_public_key_always_queries(self, pk, request_key, fail) ==
    LET s1 == [self EXCEPT !.base_node_public_key = pk]
        r == query_unspent_outputs_status(s1, request_key, fail)
    IN IF ~r.reply.ok THEN r ELSE Ok(r.self, "BaseNodePublicKeySet", 0)

\* set_base_node_public_key that sets the key only when its query succeeds.
set_base_node_public_key_after_query(self, pk, request_key, fail) ==
    LET startup_query == self.base_node_public_key = None
        s1 == [self EXCEPT !.base_node_public_key = pk]
    IN  IF startup_query
        THEN LET r == query_unspent_outputs_status(s1, request_key, fail)
             IN IF ~r.reply.ok THEN Err(self, r.reply.type)
                ELSE Ok(r.self, "BaseNodePublicKeySet", 0)
        ELSE Ok(s1, "BaseNodePublicKeySet", 0)

set_base_node_public_key(self, pk, request_key, fail) ==
    LET startup_query == self.base_node_public_key = None
        s1 == [self EXCEPT !.base_node_public_key = pk]
    IN  IF startup_query
        THEN LET r == query_unspent_outputs_status(s1, request_key, fail)
             IN IF ~r.reply.ok THEN r ELSE Ok(r.self, "BaseNodePublicKeySet", 0)
        ELSE Ok(s1, "BaseNodePublicKeySet", 0)

---------------------------------------------------------------------------
(* Selection of inputs *)

\* The comparator of UTXOSelectionStrategy::MaturityThenSmallest.
MaturityThenSmallest(a, b) ==
    IF a.features.maturity = b.features.maturity THEN a.value <= b.value
    ELSE a.features.maturity < b.features.maturity

\* The orders new_uo.sort_by(..) can leave the unspent outputs in: sorted by
\* the comparator, outputs it holds equal in any order (the order the store
\* returned them in).
RECURSIVE SortedOrders(_)
SortedOrders(S) ==
    IF S = {} THEN { << >> }
    ELSE UNION { { <<m>> \o t : t \in SortedOrders(S \ {m}) } :
                 m \in { x \in S : \A y \in S : MaturityThenSmallest(x, y) } }

\* The loop of select_utxos without its test for the exact total.
RECURSIVE select_loop_without_exact(_, _, _, _, _)
select_loop_without_exact(uo, st, amount, fee_per_gram, output_count) ==
    IF Len(st.utxos) = Len(uo) THEN st
    ELSE
        LET o == uo[Len(st.utxos) + 1]
            utxos == Append(st.utxos, o)
            total == st.total + o.value
            fee_without_change == Fee(fee_per_gram, 1, Len(utxos), output_count)
            fee_with_change == Fee(fee_per_gram, 1, Len(utxos), output_count + 1)
        IN  IF total >= amount + fee_with_change
            THEN [st EXCEPT !.utxos = utxos, !.total = total,
                            !.fee_without_change = fee_without_change,
                            !.fee_with_change = fee_with_change,
                            !.require_change_output = TRUE]
            ELSE select_loop_without_exact(uo,
                     [st EXCEPT !.utxos = utxos, !.total = total,
                                !.fee_without_change = fee_without_change,
                                !.fee_with_change = fee_with_change],
                     amount, fee_per_gram, output_count)

\* The loop of select_utxos over uo from the state st it has reached.
RECURSIVE select_loop(_, _, _, _, _)
select_loop(uo, st, amount, fee_per_gram, output_count) ==
    IF Len(st.utxos) = Len(uo) THEN st
    ELSE
        LET o == uo[Len(st.utxos) + 1]
            utxos == Append(st.utxos, o)
            total == st.total + o.value
            fee_without_change == Fee(fee_per_gram, 1, Len(utxos), output_count)
            fee_with_change == Fee(fee_per_gram, 1, Len(utxos), output_count + 1)
        IN  IF total = amount + fee_without_change
            THEN [st EXCEPT !.utxos = utxos, !.total = total,
                            !.fee_without_change = fee_without_change]
            ELSE IF total >= amount + fee_with_change
            THEN [st EXCEPT !.utxos = utxos, !.total = total,
                            !.fee_without_change = fee_without_change,
                            !.fee_with_change = fee_with_change,
                            !.require_change_output = TRUE]
            ELSE select_loop(uo,
                     [st EXCEPT !.utxos = utxos, !.total = total,
                                !.fee_without_change = fee_without_change,
                                !.fee_with_change = fee_with_change],
                     amount, fee_per_gram, output_count)

\* select_utxos that requires a change output whenever it succeeds.
select_utxos_always_change(uo, amount, fee_per_gram, output_count, fail) ==
    LET st == select_loop(uo,
                  [utxos |-> << >>, total |-> 0, fee_without_change |-> 0,
                   fee_with_change |-> 0, require_change_output |-> FALSE],
                  amount, fee_per_gram, output_count)
    IN  IF fail = "fetch_sorted_unspent_outputs"
        THEN [ok |-> FALSE, error |-> "OutputManagerStorageError"]
        ELSE IF st.total # amount + st.fee_without_change
                /\ st.total < amount + st.fee_with_change
        THEN [ok |-> FALSE, error |-> "NotEnoughFunds"]
        ELSE [ok |-> TRUE, utxos |-> st.utxos, require_change_output |-> TRUE]

\* select_utxos that returns every unspent output when the funds suffice.
select_utxos_of_all(uo, amount, fee_per_gram, output_count, fail) ==
    LET st == select_loop(uo,
                  [utxos |-> << >>, total |-> 0, fee_without_change |-> 0,
                   fee_with_change |-> 0, require_change_output |-> FALSE],
                  amount, fee_per_gram, output_count)
    IN  IF fail = "fetch_sorted_unspent_outputs"
        THEN [ok |-> FALSE, error |-> "OutputManagerStorageError"]
        ELSE IF st.total # amount + st.fee_without_change
                /\ st.total < amount + st.fee_with_change
        THEN [ok |-> FALSE, error |-> "NotEnoughFunds"]
        ELSE [ok |-> TRUE, utxos |-> uo,
              require_change_output |-> st.require_change_output]

\* uo: the unspent outputs in the order the sort leaves them.
select_utxos(uo, amount, fee_per_gram, output_count, fail) ==
    LET st == select_loop(uo,
                  [utxos |-> << >>, total |-> 0, fee_without_change |-> 0,
                   fee_with_change |-> 0, require_change_output |-> FALSE],
                  amount, fee_per_gram, output_count)
    IN  IF fail = "fetch_sorted_unspent_outputs"
        THEN [ok |-> FALSE, error |-> "OutputManagerStorageError"]
        ELSE IF st.total # amount + st.fee_without_change
                /\ st.total < amount + st.fee_with_change
        THEN [ok |-> FALSE, error |-> "NotEnoughFunds"]
        ELSE [ok |-> TRUE, utxos |-> st.utxos,
              require_change_output |-> st.require_change_output]

---------------------------------------------------------------------------
(* The API handlers *)

add_output(self, output, fail) ==
    LET r == Call(fail, "add_unspent_output", self.db,
                  add_unspent_output(self.db, output))
    IN  IF ~r.ok THEN Err(self, "OutputManagerStorageError")
        ELSE Ok([self EXCEPT !.db = r.db], "OutputAdded", 0)

\* The balance the store computes from its partitions.
get_balance(self, fail) ==
    IF fail = "get_balance" THEN Err(self, "OutputManagerStorageError")
    ELSE Ok(self, "Balance",
            [available_balance |-> SumValues(self.db.unspent),
             pending_incoming_balance |-> SumValues(self.db.pending_incoming),
             pending_outgoing_balance |->
                 SumValues(self.db.short_term_encumbered \cup self.db.encumbered)])

confirm_encumberance(self, tx_id, fail) ==
    LET r == Call(fail, "confirm_encumbered_outputs", self.db,
                  confirm_encumbered_outputs(self.db, tx_id))
    IN  IF ~r.ok THEN Err(self, "OutputManagerStorageError")
        ELSE Ok([self EXCEPT !.db = r.db], "PendingTransactionConfirmed", tx_id)

\* get_recipient_spending_key without the call of confirm_encumberance.
get_recipient_spending_key_not_confirmed(self, tx_id, amount, fail) ==
    LET km == next_key(self.key_manager)
        s1 == [self EXCEPT !.key_manager = km.key_manager]
        r1 == Call(fail, "increment_key_index", s1.db, increment_key_index(s1.db))
        r2 == Call(fail, "accept_incoming_pending_transaction", r1.db,
                   accept_incoming_pending_transaction(r1.db, tx_id, amount, km.k,
                                                       DefaultFeatures))
    IN  IF ~r1.ok THEN Err(s1, "OutputManagerStorageError")
        ELSE IF ~r2.ok THEN Err([s1 EXCEPT !.db = r1.db], "OutputManagerStorageError")
        ELSE Ok([s1 EXCEPT !.db = r2.db], "RecipientKeyGenerated", km.k)

get_recipient_spending_key(self, tx_id, amount, fail) ==
    LET km == next_key(self.key_manager)
        s1 == [self EXCEPT !.key_manager = km.key_manager]
        r1 == Call(fail, "increment_key_index", s1.db, increment_key_index(s1.db))
        r2 == Call(fail, "accept_incoming_pending_transaction", r1.db,
                   accept_incoming_pending_transaction(r1.db, tx_id, amount, km.k,
                                                       DefaultFeatures))
        r3 == confirm_encumberance([s1 EXCEPT !.db = r2.db], tx_id, fail)
    IN  IF ~r1.ok THEN Err(s1, "OutputManagerStorageError")
        ELSE IF ~r2.ok THEN Err([s1 EXCEPT !.db = r1.db], "OutputManagerStorageError")
        ELSE IF ~r3.reply.ok THEN r3
        ELSE Ok(r3.self, "RecipientKeyGenerated", km.k)

\* get_coinbase_spending_key without the call of increment_key_index.
get_coinbase_spending_key_not_persisted(self, tx_id, amount, maturity_height, fail) ==
    LET km == next_key(self.key_manager)
        s1 == [self EXCEPT !.key_manager = km.key_manager]
        r2 == Call(fail, "accept_incoming_pending_transaction", s1.db,
                   accept_incoming_pending_transaction(s1.db, tx_id, amount, km.k,
                                                       CoinbaseFeatures(maturity_height)))
    IN  IF fail = "increment_key_index" \/ ~r2.ok
        THEN Err(s1, "OutputManagerStorageError")
        ELSE Ok([s1 EXCEPT !.db = r2.db], "RecipientKeyGenerated", km.k)

get_coinbase_spending_key(self, tx_id, amount, maturity_height, fail) ==
    LET km == next_key(self.key_manager)
        s1 == [self EXCEPT !.key_manager = km.key_manager]
        r1 == Call(fail, "increment_key_index", s1.db, increment_key_index(s1.db))
        r2 == Call(fail, "accept_incoming_pending_transaction", r1.db,
                   accept_incoming_pending_transaction(r1.db, tx_id, amount, km.k,
                                                       CoinbaseFeatures(maturity_height)))
    IN  IF ~r1.ok THEN Err(s1, "OutputManagerStorageError")
        ELSE IF ~r2.ok THEN Err([s1 EXCEPT !.db = r1.db], "OutputManagerStorageError")
        ELSE Ok([s1 EXCEPT !.db = r2.db], "RecipientKeyGenerated", km.k)

\* The builder's get_amount_to_self(): what the inputs leave over the amount
\* and the fee of a transaction with the change output.
AmountToSelf(total, amount, fee_per_gram, num_inputs) ==
    LET change == total - amount - Fee(fee_per_gram, 1, num_inputs, 2)
    IN IF change > 0 THEN change ELSE 0

\* prepare_transaction_to_send that returns the protocol it built without the
\* call of encumber_outputs.
prepare_without_encumber(self, amount, fee_per_gram, uo, tx_id, fail) ==
    LET sel == select_utxos(uo, amount, fee_per_gram, 1, fail)
        outputs == sel.utxos
        total == SeqSum(outputs)
        with_change == total > amount + Fee(fee_per_gram, 1, Len(outputs), 1)
        km == next_key(self.key_manager)
        s1 == IF with_change THEN [self EXCEPT !.key_manager = km.key_manager]
              ELSE self
        r1 == IF with_change
              THEN Call(fail, "increment_key_index", s1.db, increment_key_index(s1.db))
              ELSE StoreOk(s1.db)
        s2 == [s1 EXCEPT !.db = r1.db]
    IN  IF ~sel.ok THEN Err(self, sel.error)
        ELSE IF ~r1.ok THEN Err(s1, "OutputManagerStorageError")
        ELSE IF fail = "build" THEN Err(s2, "BuildError")
        ELSE Ok(s2, "TransactionToSend", tx_id)

\* uo: the order select_utxos sees the unspent outputs in; tx_id: the id the
\* builder gives the transaction.
prepare_transaction_to_send(self, amount, fee_per_gram, uo, tx_id, fail) ==
    LET sel == select_utxos(uo, amount, fee_per_gram, 1, fail)
        outputs == sel.utxos
        total == SeqSum(outputs)
        fee_without_change == Fee(fee_per_gram, 1, Len(outputs), 1)
        with_change == total > amount + fee_without_change
        km == next_key(self.key_manager)
        s1 == IF with_change THEN [self EXCEPT !.key_manager = km.key_manager]
              ELSE self
        r1 == IF with_change
              THEN Call(fail, "increment_key_index", s1.db, increment_key_index(s1.db))
              ELSE StoreOk(s1.db)
        s2 == [s1 EXCEPT !.db = r1.db]
        change_output ==
            IF with_change
            THEN { UnblindedOutput(
                       AmountToSelf(total, amount, fee_per_gram, Len(outputs)),
                       km.k, DefaultFeatures) }
            ELSE {}
        r2 == Call(fail, "encumber_outputs", s2.db,
                   encumber_outputs(s2.db, tx_id, SeqToSet(outputs), change_output))
    IN  IF ~sel.ok THEN Err(self, sel.error)
        ELSE IF ~r1.ok THEN Err(s1, "OutputManagerStorageError")
        ELSE IF fail = "build" THEN Err(s2, "BuildError")
        ELSE IF ~r2.ok THEN Err(s2, "OutputManagerStorageError")
        ELSE Ok([s2 EXCEPT !.db = r2.db], "TransactionToSend", tx_id)

\* confirm_received_transaction_output without the comparison of the
\* commitments.
confirm_received_of_any_commitment(self, tx_id, received_output, fail) ==
    IF fail = "fetch_pending_transaction_outputs" \/ ~HasRecord(self.db, tx_id)
    THEN Err(self, "OutputManagerStorageError")
    ELSE
        LET pending_transaction == self.db.pending[tx_id]
            r == Call(fail, "confirm_pending_transaction_outputs", self.db,
                      confirm_pending_transaction_outputs(self.db, tx_id))
        IN  IF Cardinality(pending_transaction.outputs_to_be_received) # 1
            THEN Err(self, "IncompleteTransaction")
            ELSE IF ~r.ok THEN Err(self, "OutputManagerStorageError")
            ELSE Ok([self EXCEPT !.db = r.db], "Unit", 0)

\* received_output: the commitment of the output observed on the blockchain.
confirm_received_transaction_output(self, tx_id, received_output, fail) ==
    IF fail = "fetch_pending_transaction_outputs" \/ ~HasRecord(self.db, tx_id)
    THEN Err(self, "OutputManagerStorageError")
    ELSE
        LET pending_transaction == self.db.pending[tx_id]
            r == Call(fail, "confirm_pending_transaction_outputs", self.db,
                      confirm_pending_transaction_outputs(self.db, tx_id))
        IN  IF \/ Cardinality(pending_transaction.outputs_to_be_received) # 1
               \/ \E o \in pending_transaction.outputs_to_be_received :
                      Commitment(o) # received_output
            THEN Err(self, "IncompleteTransaction")
            ELSE IF ~r.ok THEN Err(self, "OutputManagerStorageError")
            ELSE Ok([self EXCEPT !.db = r.db], "Unit", 0)

\* confirm_transaction that takes a transaction without a pending record as
\* confirmed.
confirm_transaction_unknown_ok(self, tx_id, inputs, outputs, fail) ==
    IF fail = "fetch_pending_transaction_outputs"
    THEN Err(self, "OutputManagerStorageError")
    ELSE IF ~HasRecord(self.db, tx_id)
    THEN Ok(self, "TransactionConfirmed", tx_id)
    ELSE
        LET pending_transaction == self.db.pending[tx_id]
            inputs_confirmed ==
                \A output_to_spend \in pending_transaction.outputs_to_be_spent :
                    Commitment(output_to_spend) \in inputs
            outputs_confirmed ==
                \A output_to_receive \in pending_transaction.outputs_to_be_received :
                    Commitment(output_to_receive) \in outputs
            r == Call(fail, "confirm_pending_transaction_outputs", self.db,
                      confirm_pending_transaction_outputs(self.db, tx_id))
        IN  IF ~inputs_confirmed \/ ~outputs_confirmed
            THEN Err(self, "IncompleteTransaction")
            ELSE IF ~r.ok THEN Err(self, "OutputManagerStorageError")
            ELSE Ok([self EXCEPT !.db = r.db], "TransactionConfirmed", tx_id)

\* confirm_transaction without the check of the outputs to be received.
confirm_transaction_inputs_only(self, tx_id, inputs, outputs, fail) ==
    IF fail = "fetch_pending_transaction_outputs" \/ ~HasRecord(self.db, tx_id)
    THEN Err(self, "OutputManagerStorageError")
    ELSE
        LET pending_transaction == self.db.pending[tx_id]
            inputs_confirmed ==
                \A output_to_spend \in pending_transaction.outputs_to_be_spent :
                    Commitment(output_to_spend) \in inputs
            r == Call(fail, "confirm_pending_transaction_outputs", self.db,
                      confirm_pending_transaction_outputs(self.db, tx_id))
        IN  IF ~inputs_confirmed THEN Err(self, "IncompleteTransaction")
            ELSE IF ~r.ok THEN Err(self, "OutputManagerStorageError")
            ELSE Ok([self EXCEPT !.db = r.db], "TransactionConfirmed", tx_id)

\* inputs, outputs: the commitments of the transaction's inputs and outputs.
confirm_transaction(self, tx_id, inputs, outputs, fail) ==
    IF fail = "fetch_pending_transaction_outputs" \/ ~HasRecord(self.db, tx_id)
    THEN Err(self, "OutputManagerStorageError")
    ELSE
        LET pending_transaction == self.db.pending[tx_id]
            inputs_confirmed ==
                \A output_to_spend \in pending_transaction.outputs_to_be_spent :
                    Commitment(output_to_spend) \in inputs
            outputs_confirmed ==
                \A output_to_receive \in pending_transaction.outputs_to_be_received :
                    Commitment(output_to_receive) \in outputs
            r == Call(fail, "confirm_pending_transaction_outputs", self.db,
                      confirm_pending_transaction_outputs(self.db, tx_id))
        IN  IF ~inputs_confirmed \/ ~outputs_confirmed
            THEN Err(self, "IncompleteTransaction")
            ELSE IF ~r.ok THEN Err(self, "OutputManagerStorageError")
            ELSE Ok([self EXCEPT !.db = r.db], "TransactionConfirmed", tx_id)

\* cancel_transaction that returns Ok without the call of the store.
cancel_transaction_not_applied(self, tx_id, fail) ==
    IF fail = "cancel_pending_transaction_outputs" \/ ~HasRecord(self.db, tx_id)
    THEN Err(self, "OutputManagerStorageError")
    ELSE Ok(self, "TransactionCancelled", tx_id)

cancel_transaction(self, tx_id, fail) ==
    LET r == Call(fail, "cancel_pending_transaction_outputs", self.db,
                  cancel_pending_transaction_outputs(self.db, tx_id))
    IN  IF ~r.ok THEN Err(self, "OutputManagerStorageError")
        ELSE Ok([self EXCEPT !.db = r.db], "TransactionCancelled", tx_id)

\* older: the pending records older than the period.
timeout_pending_transactions(self, older, fail) ==
    LET r == Call(fail, "timeout_pending_transaction_outputs", self.db,
                  timeout_pending_transaction_outputs(self.db, older))
    IN  IF ~r.ok THEN Err(self, "OutputManagerStorageError")
        ELSE Ok([self EXCEPT !.db = r.db], "TransactionsTimedOut", 0)

\* The loop of create_coin_split with every output of amount_per_split, the
\* change output too.
RECURSIVE coin_split_outputs_all_equal(_, _, _, _, _, _, _, _)
coin_split_outputs_all_equal(st, i, output_count, split_count, amount_per_split, change_output, fail, nth) ==
    IF i >= output_count THEN st
    ELSE
        LET km == next_key(st.self.key_manager)
            s1 == [st.self EXCEPT !.key_manager = km.key_manager]
            r == IF fail = "increment_key_index" /\ nth = i + 1 THEN StoreErr(s1.db)
                 ELSE increment_key_index(s1.db)
            utxo == UnblindedOutput(amount_per_split, km.k, DefaultFeatures)
        IN  IF ~r.ok THEN [st EXCEPT !.self = s1, !.ok = FALSE]
            ELSE coin_split_outputs_all_equal(
                     [st EXCEPT !.self = [s1 EXCEPT !.db = r.db],
                                !.outputs = @ \cup {utxo}],
                     i + 1, output_count, split_count, amount_per_split, change_output,
                     fail, nth)

\* The loop of create_coin_split that issues a key for each output, from its
\* i-th round on: st is [self, ok, outputs].  nth: with fail =
\* "increment_key_index", the round (from 1) whose increment_key_index fails.
RECURSIVE coin_split_outputs(_, _, _, _, _, _, _, _)
coin_split_outputs(st, i, output_count, split_count, amount_per_split, change_output, fail, nth) ==
    IF i >= output_count THEN st
    ELSE
        LET output_amount == IF i < split_count THEN amount_per_split ELSE change_output
            km == next_key(st.self.key_manager)
            s1 == [st.self EXCEPT !.key_manager = km.key_manager]
            r == IF fail = "increment_key_index" /\ nth = i + 1 THEN StoreErr(s1.db)
                 ELSE increment_key_index(s1.db)
            utxo == UnblindedOutput(output_amount, km.k, DefaultFeatures)
        IN  IF ~r.ok THEN [st EXCEPT !.self = s1, !.ok = FALSE]
            ELSE coin_split_outputs(
                     [st EXCEPT !.self = [s1 EXCEPT !.db = r.db],
                                !.outputs = @ \cup {utxo}],
                     i + 1, output_count, split_count, amount_per_split, change_output,
                     fail, nth)

create_coin_split(self, amount_per_split, split_count, fee_per_gram, uo, tx_id, fail, nth) ==
    LET total_split_amount == amount_per_split * split_count
        sel == select_utxos(uo, total_split_amount, fee_per_gram, split_count, fail)
        inputs == sel.utxos
        utxo_total == SeqSum(inputs)
        input_count == Len(inputs)
        output_count == IF sel.require_change_output THEN split_count + 1
                        ELSE split_count
        fee == Fee(fee_per_gram, 1, input_count, output_count)
        change_output == utxo_total - fee - total_split_amount
        issued == coin_split_outputs([self |-> self, ok |-> TRUE, outputs |-> {}], 0,
                      output_count, split_count, amount_per_split, change_output,
                      fail, nth)
        s1 == issued.self
        r2 == Call(fail, "encumber_outputs", s1.db,
                   encumber_outputs(s1.db, tx_id, SeqToSet(inputs), issued.outputs))
        r3 == confirm_encumberance([s1 EXCEPT !.db = r2.db], tx_id, fail)
    IN  IF ~sel.ok THEN Err(self, sel.error)
        ELSE IF utxo_total < fee \/ utxo_total - fee < total_split_amount
        THEN Err(self, "NotEnoughFunds")
        ELSE IF ~issued.ok THEN Err(s1, "OutputManagerStorageError")
        ELSE IF fail = "build" THEN Err(s1, "BuildError")
        ELSE IF ~r2.ok THEN Err(s1, "OutputManagerStorageError")
        ELSE IF ~r3.reply.ok THEN r3
        ELSE IF fail = "finalize" THEN Err(r3.self, "TransactionProtocolError")
        ELSE Ok(r3.self, "Transaction",
                [tx_id |-> tx_id, fee |-> fee, utxo_total |-> utxo_total])

\* The requests that read the store: the snapshot each returns.
fetch_outputs(self, request, fail) ==
    IF fail = "fetch" THEN Err(self, "OutputManagerStorageError")
    ELSE CASE request = "GetPendingTransactions" ->
                  Ok(self, "PendingTransactions", self.db.pending)
           [] request = "GetSpentOutputs" -> Ok(self, "SpentOutputs", self.db.spent)
           [] request = "GetUnspentOutputs" -> Ok(self, "UnspentOutputs", self.db.unspent)
           [] request = "GetInvalidOutputs" -> Ok(self, "InvalidOutputs", self.db.invalid)

---------------------------------------------------------------------------
(* Construction *)

\* The master seeds PrivateKey::random can draw.
Seeds == {"seedA", "seedB"}

\* new() that starts from a fresh key manager state whatever the store holds.
new_with_fresh_state(d, seed) ==
    LET d1 == [d EXCEPT !.master_seed = seed, !.primary_key_index = 0]
    IN [db |-> clear_short_term_encumberances(d1).db,
        key_manager |-> 0,
        base_node_public_key |-> None,
        pending_utxo_query_keys |-> << >>,
        utxo_query_timeout_futures |-> {},
        outbound |-> << >>, events |-> << >>]

\* new() over the store d: the service it returns.  seed: the master seed it
\* draws when the store holds no key manager state.  (A new() that returns an
\* error constructs no service and, the store's calls being atomic, leaves the
\* store as it was.)
new(d, seed) ==
    LET key_manager_state ==
            IF d.master_seed = None
            THEN [master_seed |-> seed, primary_key_index |-> 0]
            ELSE [master_seed |-> d.master_seed,
                  primary_key_index |-> d.primary_key_index]
        d1 == [d EXCEPT !.master_seed = key_manager_state.master_seed,
                        !.primary_key_index = key_manager_state.primary_key_index]
    IN [db |-> clear_short_term_encumberances(d1).db,
        key_manager |-> key_manager_state.primary_key_index,
        base_node_public_key |-> None,
        pending_utxo_query_keys |-> << >>,
        utxo_query_timeout_futures |-> {},
        outbound |-> << >>, events |-> << >>]

---------------------------------------------------------------------------
(* The actor loop: one action per item it takes from its three streams *)

\* The service constructed over an empty store (behaviours do not depend on
\* which seed it drew).
Init ==
    /\ db = new(EmptyDb, "seedA").db
    /\ key_manager = 0
    /\ base_node_public_key = None
    /\ pending_utxo_query_keys = << >>
    /\ utxo_query_timeout_futures = {}
    /\ op = [name |-> "new"]
    /\ reply = [ok |-> TRUE, type |-> "new", val |-> 0]
    /\ events = << >>
    /\ outbound = << >>
    /\ reply_tx = << >>
    /\ request_stream = "open"
    /\ base_node_response_stream = "open"
    /\ pc = "loop"
    /\ steps = 0

\* The loop has run a handler: r is what the handler returned, o names it.
Ran(r, o) ==
    /\ pc = "loop"
    /\ r.self.key_manager <= MaxKeyIndex
    /\ db' = r.self.db
    /\ key_manager' = r.self.key_manager
    /\ base_node_public_key' = r.self.base_node_public_key
    /\ pending_utxo_query_keys' = r.self.pending_utxo_query_keys
    /\ utxo_query_timeout_futures' = r.self.utxo_query_timeout_futures
    /\ events' = r.self.events
    /\ outbound' = r.self.outbound
    /\ reply' = r.reply
    /\ op' = o
    /\ UNCHANGED <<request_stream, base_node_response_stream, pc>>

\* The first arm of the select: a request of the API request stream is handled
\* and what the handler returned is sent on the request's reply channel.
Handled(r, o) ==
    /\ request_stream = "open"
    /\ Ran(r, o)
    /\ reply_tx' = <<r.reply>>

\* (The second arm without the event: the error is only logged.)
log_error_if_err(result) == result

\* The second arm of the select, after the handler returned: its error is
\* published as an Error event.
publish_error_if_err(result) ==
    IF result.reply.ok THEN result
    ELSE [result EXCEPT !.self = Publish(@, ErrorEvent)]

\* The second and third arm of the select: an item of the base node response
\* stream or a ticket is handled; no reply channel comes with it.
Taken(r, o) ==
    /\ Ran(r, o)
    /\ reply_tx' = << >>

AddOutput ==
    \E uo \in ExternalOutputs, fail \in {"none", "add_unspent_output"} :
        Handled(add_output(Self, uo, fail), [name |-> "AddOutput"])

GetBalance ==
    \E fail \in {"none", "get_balance"} :
        Handled(get_balance(Self, fail), [name |-> "GetBalance"])

GetRecipientKey ==
    \E tx_id \in TxIds, amount \in Amounts,
       fail \in {"none", "increment_key_index", "accept_incoming_pending_transaction",
                 "confirm_encumbered_outputs"} :
        Handled(get_recipient_spending_key(Self, tx_id, amount, fail),
                [name |-> "GetRecipientKey", tx_id |-> tx_id])

GetCoinbaseKey ==
    \E tx_id \in TxIds, amount \in Amounts, maturity_height \in Maturities,
       fail \in {"none", "increment_key_index", "accept_incoming_pending_transaction"} :
        Handled(get_coinbase_spending_key(Self, tx_id, amount, maturity_height, fail),
                [name |-> "GetCoinbaseKey", tx_id |-> tx_id])

PrepareToSendTransaction ==
    \E amount \in Amounts, fee_per_gram \in FeesPerGram, tx_id \in TxIds,
       uo \in SortedOrders(db.unspent),
       fail \in {"none", "fetch_sorted_unspent_outputs", "increment_key_index",
                 "build", "encumber_outputs"} :
        Handled(prepare_transaction_to_send(Self, amount, fee_per_gram, uo, tx_id, fail),
                [name |-> "PrepareToSendTransaction", tx_id |-> tx_id,
                 amount |-> amount, fee_per_gram |-> fee_per_gram])

ConfirmPendingTransaction ==
    \E tx_id \in TxIds, fail \in {"none", "confirm_encumbered_outputs"} :
        Handled(confirm_encumberance(Self, tx_id, fail),
                [name |-> "ConfirmPendingTransaction", tx_id |-> tx_id])

Commitments(outputs) == { Commitment(o) : o \in outputs }

\* The commitments a caller of ConfirmTransaction supplies: the handler tells
\* them apart only by which of the record's outputs they match.
ConfirmTransaction ==
    \E tx_id \in TxIds,
       fail \in {"none", "fetch_pending_transaction_outputs",
                 "confirm_pending_transaction_outputs"} :
    \E inputs \in SUBSET Commitments(IF HasRecord(db, tx_id)
                                     THEN db.pending[tx_id].outputs_to_be_spent ELSE {}),
       outputs \in SUBSET Commitments(IF HasRecord(db, tx_id)
                                      THEN db.pending[tx_id].outputs_to_be_received
                                      ELSE {}) :
        Handled(confirm_transaction(Self, tx_id, inputs, outputs, fail),
                [name |-> "ConfirmTransaction", tx_id |-> tx_id, inputs |-> inputs,
                 outputs |-> outputs, fail |-> fail])

CancelTransaction ==
    \E tx_id \in TxIds, fail \in {"none", "cancel_pending_transaction_outputs"} :
        Handled(cancel_transaction(Self, tx_id, fail),
                [name |-> "CancelTransaction", tx_id |-> tx_id])

TimeoutTransactions ==
    \E older \in SUBSET DOMAIN db.pending,
       fail \in {"none", "timeout_pending_transaction_outputs"} :
        Handled(timeout_pending_transactions(Self, older, fail),
                [name |-> "TimeoutTransactions"])

FetchOutputs ==
    \E request \in {"GetPendingTransactions", "GetSpentOutputs", "GetUnspentOutputs",
                    "GetInvalidOutputs"},
       fail \in {"none", "fetch"} :
        Handled(fetch_outputs(Self, request, fail), [name |-> request])

\* A CreateCoinSplit request of an amount per split of `amounts'.
CreateCoinSplitOf(amounts) ==
    \E amount_per_split \in amounts, split_count \in SplitCounts,
       fee_per_gram \in FeesPerGram, tx_id \in TxIds,
       uo \in SortedOrders(db.unspent),
       fail \in {"none", "fetch_sorted_unspent_outputs", "increment_key_index", "build",
                 "encumber_outputs", "confirm_encumbered_outputs", "finalize"},
       nth \in 1..3 :
        /\ fail # "increment_key_index" => nth = 1
        /\ Handled(create_coin_split(Self, amount_per_split, split_count, fee_per_gram,
                                     uo, tx_id, fail, nth),
                   [name |-> "CreateCoinSplit", tx_id |-> tx_id,
                    amount_per_split |-> amount_per_split,
                    split_count |-> split_count, fee_per_gram |-> fee_per_gram])

CreateCoinSplit == CreateCoinSplitOf(Amounts)

QueryFails == {"none", "get_unspent_outputs", "send_direct"}

\* (The bound on the tickets is for the call that queries, the first one.)
SetBaseNodePublicKey ==
    \E pk \in PublicKeys, request_key \in FreshRequestKeys(Self), fail \in QueryFails :
        /\ base_node_public_key = None
              => Cardinality(utxo_query_timeout_futures) < MaxTickets
        /\ Handled(set_base_node_public_key(Self, pk, request_key, fail),
                   [name |-> "SetBaseNodePublicKey", pk |-> pk])

SyncWithBaseNode ==
    \E request_key \in FreshRequestKeys(Self), fail \in QueryFails :
        /\ Cardinality(utxo_query_timeout_futures) < MaxTickets
        /\ Handled(query_unspent_outputs_status(Self, request_key, fail),
                   [name |-> "SyncWithBaseNode"])

\* The hashes a response to request_key can carry that the handler tells
\* apart: those it queried of outputs that are unspent.
ResponseHashes(request_key) ==
    IF request_key \in DOMAIN pending_utxo_query_keys
    THEN { OutputHash(o) : o \in db.unspent } \cap pending_utxo_query_keys[request_key]
    ELSE {}

\* A message of the base node response stream (start(), the second arm of
\* the select): an error of the handler is published as an Error event.
BaseNodeResponse ==
    \E request_key \in RequestKeys, kind \in {"Other", "Malformed", "Outputs"},
       fail \in {"none", "get_unspent_outputs", "invalidate_output"} :
    \E outputs \in (IF kind = "Other" THEN {{}}
                    ELSE SUBSET ResponseHashes(request_key)),
       done \in (IF fail = "invalidate_output" THEN SUBSET db.unspent ELSE {{}}) :
        LET response == [request_key |-> request_key,
                         variant |-> IF kind = "Other" THEN "Other"
                                     ELSE "TransactionOutputs",
                         outputs |-> outputs, malformed |-> kind = "Malformed"]
            result == publish_error_if_err(
                          handle_base_node_response(Self, response, fail, done))
        IN /\ base_node_response_stream = "open"
           /\ Taken(result, [name |-> "BaseNodeResponse", request_key |-> request_key,
                             response |-> response,
                             queried_hashes |->
                                 IF request_key \in DOMAIN pending_utxo_query_keys
                                 THEN pending_utxo_query_keys[request_key] ELSE {}])

\* A ticket of utxo_query_timeout_futures fires (the third arm of the select):
\* the ticket is consumed and the handler's result is dropped.
UtxoQueryTimeoutOf(utxo_hash) ==
    /\ utxo_hash \in utxo_query_timeout_futures
    /\ \E fail \in QueryFails :
        LET s0 == [Self EXCEPT !.utxo_query_timeout_futures = @ \ {utxo_hash}]
        IN \E new_key \in FreshRequestKeys(s0) \ {utxo_hash} :
            Taken(handle_utxo_query_timeout(s0, utxo_hash, new_key, fail),
                  [name |-> "UtxoQueryTimeout", request_key |-> utxo_hash])

UtxoQueryTimeout == \E utxo_hash \in RequestKeys : UtxoQueryTimeoutOf(utxo_hash)

\* A stream the loop selects on ends (its senders are dropped): its arm is
\* terminated from then on.  No handler runs.
StreamClosed(o) ==
    /\ pc = "loop"
    /\ op' = o
    /\ events' = << >>
    /\ outbound' = << >>
    /\ reply_tx' = << >>
    /\ UNCHANGED <<db, key_manager, base_node_public_key, pending_utxo_query_keys,
                   utxo_query_timeout_futures, reply, pc>>

CloseRequestStream ==
    /\ request_stream = "open"
    /\ request_stream' = "closed"
    /\ UNCHANGED base_node_response_stream
    /\ StreamClosed([name |-> "CloseRequestStream"])

CloseBaseNodeResponseStream ==
    /\ base_node_response_stream = "open"
    /\ base_node_response_stream' = "closed"
    /\ UNCHANGED request_stream
    /\ StreamClosed([name |-> "CloseBaseNodeResponseStream"])

\* (A loop that leaves as soon as its two streams have ended.)
CompleteWithTicketsOutstanding ==
    /\ pc = "loop"
    /\ request_stream = "closed"
    /\ base_node_response_stream = "closed"
    /\ pc' = "ended"
    /\ op' = [name |-> "complete"]
    /\ reply' = [ok |-> TRUE, type |-> "start", val |-> 0]
    /\ events' = << >>
    /\ outbound' = << >>
    /\ reply_tx' = << >>
    /\ UNCHANGED <<db, key_manager, base_node_public_key, pending_utxo_query_keys,
                   utxo_query_timeout_futures, request_stream,
                   base_node_response_stream>>

\* The `complete' arm of the select: every future it selects on is terminated,
\* the two fused streams have ended and utxo_query_timeout_futures holds no
\* ticket.  The loop breaks and start() returns Ok(()).
Complete ==
    /\ pc = "loop"
    /\ request_stream = "closed"
    /\ base_node_response_stream = "closed"
    /\ utxo_query_timeout_futures = {}
    /\ pc' = "ended"
    /\ op' = [name |-> "complete"]
    /\ reply' = [ok |-> TRUE, type |-> "start", val |-> 0]
    /\ events' = << >>
    /\ outbound' = << >>
    /\ reply_tx' = << >>
    /\ UNCHANGED <<db, key_manager, base_node_public_key, pending_utxo_query_keys,
                   utxo_query_timeout_futures, request_stream,
                   base_node_response_stream>>

\* A handler run in a behaviour of at most MaxSteps handlers.
Counted(A) == steps < MaxSteps /\ steps' = steps + 1 /\ A
\* A handler run in a behaviour of any length.
Uncounted(A) == UNCHANGED steps /\ A

\* Every operation of the service, in behaviours of at most MaxSteps handlers.
Next ==
    \/ Counted(AddOutput)
    \/ Counted(GetBalance)
    \/ Counted(GetRecipientKey)
    \/ Counted(GetCoinbaseKey)
    \/ Counted(PrepareToSendTransaction)
    \/ Counted(ConfirmPendingTransaction)
    \/ Counted(ConfirmTransaction)
    \/ Counted(CancelTransaction)
    \/ Counted(TimeoutTransactions)
    \/ Counted(FetchOutputs)
    \/ Counted(CreateCoinSplit)
    \/ Counted(SetBaseNodePublicKey)
    \/ Counted(SyncWithBaseNode)
    \/ Counted(BaseNodeResponse)
    \/ Counted(UtxoQueryTimeout)

Spec == Init /\ [][Next]_vars

\* The operations that issue keys, and AddOutput to fund them, in behaviours
\* of any length.
KeyNext ==
    \/ Uncounted(AddOutput)
    \/ Uncounted(GetRecipientKey)
    \/ Uncounted(GetCoinbaseKey)
    \/ Uncounted(PrepareToSendTransaction)
    \/ Uncounted(CreateCoinSplit)

KeySpec == Init /\ [][KeyNext]_vars

\* The synchronisation with the base node and the requests that move outputs
\* into and out of Unspent meanwhile, in behaviours of any length.
SyncNext ==
    \/ Uncounted(AddOutput)
    \/ Uncounted(PrepareToSendTransaction)
    \/ Uncounted(CancelTransaction)
    \/ Uncounted(SetBaseNodePublicKey)
    \/ Uncounted(SyncWithBaseNode)
    \/ Uncounted(BaseNodeResponse)
    \/ Uncounted(UtxoQueryTimeout)

SyncSpec == Init /\ [][SyncNext]_vars

\* The queries alone, with outputs to query for.
QueryNext ==
    \/ Uncounted(AddOutput)
    \/ Uncounted(SetBaseNodePublicKey)
    \/ Uncounted(SyncWithBaseNode)
    \/ Uncounted(BaseNodeResponse)
    \/ Uncounted(UtxoQueryTimeout)

\* The delay of every ticket elapses and the select of start() takes it up.
QueryFairSpec ==
    /\ Init
    /\ [][QueryNext]_vars
    /\ \A k \in RequestKeys : WF_vars(Uncounted(UtxoQueryTimeoutOf(k)))

\* The queries while the streams of the loop end, up to the end of start().
ShutdownNext ==
    \/ Uncounted(AddOutput)
    \/ Uncounted(SetBaseNodePublicKey)
    \/ Uncounted(SyncWithBaseNode)
    \/ Uncounted(BaseNodeResponse)
    \/ Uncounted(UtxoQueryTimeout)
    \/ Uncounted(CloseRequestStream)
    \/ Uncounted(CloseBaseNodeResponseStream)
    \/ Uncounted(Complete)

ShutdownSpec == Init /\ [][ShutdownNext]_vars

---------------------------------------------------------------------------
(* The wallet across restarts *)

\* The service is constructed again over the store it left: new() clears the
\* short-term encumberances, takes the key manager from the persisted key
\* manager state and starts with no base node and no query pending.
Restart ==
    \E seed \in Seeds :
    /\ db' = new(db, seed).db
    /\ key_manager' = new(db, seed).key_manager
    /\ base_node_public_key' = new(db, seed).base_node_public_key
    /\ pending_utxo_query_keys' = new(db, seed).pending_utxo_query_keys
    /\ utxo_query_timeout_futures' = new(db, seed).utxo_query_timeout_futures
    /\ op' = [name |-> "new"]
    /\ reply' = [ok |-> TRUE, type |-> "new", val |-> 0]
    /\ events' = << >>
    /\ outbound' = << >>
    /\ reply_tx' = << >>
    /\ request_stream' = "open"
    /\ base_node_response_stream' = "open"
    /\ pc' = "loop"

\* The requests that create and promote pending records, and restarts.
RestartNext ==
    \/ Uncounted(AddOutput)
    \/ Uncounted(GetRecipientKey)
    \/ Uncounted(GetCoinbaseKey)
    \/ Uncounted(PrepareToSendTransaction)
    \/ Uncounted(CreateCoinSplit)
    \/ Uncounted(ConfirmPendingTransaction)
    \/ Uncounted(Restart)

RestartSpec == Init /\ [][RestartNext]_vars

---------------------------------------------------------------------------
(* confirm_received_transaction_output, called by the Transaction Service *)

\* A commitment that is of no output of the wallet.
OtherCommitment == <<0, 0>>

\* A call of confirm_received_transaction_output (no request of the loop
\* reaches it): the commitment observed is one the wallet expects to receive
\* or another.
ConfirmReceivedTransactionOutput ==
    \E tx_id \in TxIds,
       received_output \in Commitments(db.pending_incoming) \cup {OtherCommitment},
       fail \in {"none", "fetch_pending_transaction_outputs",
                 "confirm_pending_transaction_outputs"} :
        /\ Ran(confirm_received_transaction_output(Self, tx_id, received_output, fail),
               [name |-> "confirm_received_transaction_output", tx_id |-> tx_id,
                received_output |-> received_output, fail |-> fail])
        /\ reply_tx' = << >>

\* The requests that create pending records, and the confirmation of what
\* they expect to receive.
ReceiveNext ==
    \/ Uncounted(AddOutput)
    \/ Uncounted(GetRecipientKey)
    \/ Uncounted(PrepareToSendTransaction)
    \/ Uncounted(CreateCoinSplit)
    \/ Uncounted(ConfirmReceivedTransactionOutput)

ReceiveSpec == Init /\ [][ReceiveNext]_vars

---------------------------------------------------------------------------
(* select_utxos on its own: the wallets it can be called in and its inputs *)

\* The unspent outputs of the wallets select_utxos is applied to: one of
\* maturity 0 and two, smaller, of maturity 1.
SelectOutputs ==
    { UnblindedOutput(8, -1, DefaultFeatures),
      UnblindedOutput(1, -2, CoinbaseFeatures(1)),
      UnblindedOutput(1, -3, CoinbaseFeatures(1)) }

SelectAmounts == {0, 2, 3}
SelectFeesPerGram == {0, 1, 2}
SelectOutputCounts == {1, 2}

\* A wallet just constructed over a store that holds some unspent outputs.
SelectInit ==
    /\ \E unspent \in SUBSET SelectOutputs :
          db = [new(EmptyDb, "seedA").db EXCEPT !.unspent = unspent]
    /\ key_manager = 0
    /\ base_node_public_key = None
    /\ pending_utxo_query_keys = << >>
    /\ utxo_query_timeout_futures = {}
    /\ op = [name |-> "new"]
    /\ reply = [ok |-> TRUE, type |-> "new", val |-> 0]
    /\ events = << >>
    /\ outbound = << >>
    /\ reply_tx = << >>
    /\ request_stream = "open"
    /\ base_node_response_stream = "open"
    /\ pc = "loop"
    /\ steps = 0

\* A call of select_utxos: op holds its arguments and the order the sort left
\* the unspent outputs in, reply what it returned.
SelectUtxos ==
    \E amount \in SelectAmounts, fee_per_gram \in SelectFeesPerGram,
       output_count \in SelectOutputCounts, uo \in SortedOrders(db.unspent),
       fail \in {"none", "fetch_sorted_unspent_outputs"} :
        LET sel == select_utxos(uo, amount, fee_per_gram, output_count, fail)
        IN /\ Ran(IF sel.ok
                   THEN Ok(Self, "Selected",
                           [utxos |-> sel.utxos,
                            require_change_output |-> sel.require_change_output])
                   ELSE Err(Self, sel.error),
                   [name |-> "select_utxos", amount |-> amount,
                    fee_per_gram |-> fee_per_gram, output_count |-> output_count,
                    uo |-> uo, fail |-> fail])
           /\ reply_tx' = << >>

\* select_utxos and the two requests that call it.
SelectNext ==
    \/ Uncounted(SelectUtxos)
    \/ Uncounted(PrepareToSendTransaction)
    \/ Uncounted(CreateCoinSplit)

SelectSpec == SelectInit /\ [][SelectNext]_vars

\* The amounts per split of the coin splits of SplitSpec.
SplitAmounts == {0, 4}

\* select_utxos and the coin splits that call it, of any amount per split.
SplitNext ==
    \/ Uncounted(SelectUtxos)
    \/ Uncounted(CreateCoinSplitOf(SplitAmounts))

SplitSpec == SelectInit /\ [][SplitNext]_vars

---------------------------------------------------------------------------
(* Properties *)

Partitions(d) ==
    <<d.unspent, d.short_term_encumbered, d.encumbered, d.spent,
      d.pending_incoming, d.invalid>>

RecordOutputs(d) ==
    UNION { d.pending[t].outputs_to_be_spent \cup d.pending[t].outputs_to_be_received :
            t \in DOMAIN d.pending }

\* C1: after any sequence of API requests, base node responses and timeouts
\* the six partitions are pairwise disjoint, also by commitment, and every
\* output the wallet knows, those of the pending records included, lies in
\* exactly one of them.
C1_PartitionsDisjoint ==
    /\ \A i, j \in 1..6 :
          i # j => Commitments(Partitions(db)[i]) \cap Commitments(Partitions(db)[j]) = {}
    /\ \A o \in RecordOutputs(db) :
          Cardinality({ i \in 1..6 : o \in Partitions(db)[i] }) = 1

\* A transaction has been confirmed and another is pending: there are
\* outputs in Spent, in Unspent and in PendingIncoming at once.
C1_Witness ==
    /\ db.spent # {}
    /\ db.unspent # {}
    /\ db.pending_incoming # {}

\* C2: no two pending records list the same output as to be spent.
C2_NoDoubleSelection ==
    \A t1, t2 \in DOMAIN db.pending :
        t1 # t2 => db.pending[t1].outputs_to_be_spent
                       \cap db.pending[t2].outputs_to_be_spent = {}

\* Two requests have each selected outputs and both records are pending.
C2_Witness ==
    /\ op.name \in {"PrepareToSendTransaction", "CreateCoinSplit"}
    /\ reply.ok
    /\ \E t1, t2 \in DOMAIN db.pending :
          /\ t1 # t2
          /\ db.pending[t1].outputs_to_be_spent # {}
          /\ db.pending[t2].outputs_to_be_spent # {}

\* C3: a derived key that appears in an output of the store or in a reply was
\* derived from an index the persisted primary_key_index has reached.
C3_KeyPersistedBeforeUse ==
    /\ \A o \in AllOutputs(db) : KeyIndexOf(o.spending_key) <= db.primary_key_index
    /\ reply.ok /\ reply.type = "RecipientKeyGenerated"
          => KeyIndexOf(reply.val) <= db.primary_key_index

KeyOps == {"GetRecipientKey", "GetCoinbaseKey", "PrepareToSendTransaction",
           "CreateCoinSplit"}

\* C4: a key issuance that ends in a storage error leaves the in-memory key
\* index where the persisted one is: it has advanced by as much as the
\* persisted index has, the failed increment being rolled back.
C4_IndexRolledBack ==
    [][ op'.name \in KeyOps /\ ~reply'.ok /\ reply'.type = "OutputManagerStorageError"
            => key_manager' - key_manager
                   = db'.primary_key_index - db.primary_key_index ]_vars

\* The outputs the request of the last step recorded as to be received.
Received(d, tx_id) ==
    IF HasRecord(d, tx_id) THEN d.pending[tx_id].outputs_to_be_received ELSE {}

\* C5: the persisted primary_key_index never decreases, and a successful
\* request advances it by one for each key it issued: one for GetRecipientKey
\* and GetCoinbaseKey, one for each output PrepareToSendTransaction (its
\* change) and CreateCoinSplit recorded.
C5_IndexAdvancesByIssuance ==
    [][ /\ db'.primary_key_index >= db.primary_key_index
        /\ reply'.ok /\ op'.name \in {"GetRecipientKey", "GetCoinbaseKey"}
              => db'.primary_key_index = db.primary_key_index + 1
        /\ reply'.ok /\ op'.name \in {"PrepareToSendTransaction", "CreateCoinSplit"}
              => db'.primary_key_index = db.primary_key_index
                     + Cardinality(Received(db', op'.tx_id)) ]_vars

\* A coin split has issued two keys.
C5_Witness ==
    /\ op.name = "CreateCoinSplit"
    /\ reply.ok
    /\ db.primary_key_index = 2
    /\ Cardinality(Received(db, op.tx_id)) = 2

Pending == DOMAIN pending_utxo_query_keys

\* C6: between handlers every entry of pending_utxo_query_keys has a ticket
\* of the same request key that has not fired.
C6_PendingHasTicket == Pending \subseteq utxo_query_timeout_futures

\* A timed-out query has been replaced by a new one, which has its ticket.
C6_Witness ==
    /\ op.name = "UtxoQueryTimeout"
    /\ Pending # {}
    /\ op.request_key \notin Pending

\* What removes the entry of request key k in a step, if the step removes it.
RemovedBy(k) ==
    k \in Pending /\ k \notin Pending'
        => /\ op'.name \in {"BaseNodeResponse", "UtxoQueryTimeout"}
           /\ op'.request_key = k

\* C7: every pending query is eventually removed, its ticket firing at some
\* time, and what removes it is one handler: that of a response to its key or
\* that of its timeout.
C7_PendingEventuallyRemoved ==
    /\ \A k \in RequestKeys : (k \in Pending) ~> (k \notin Pending)
    /\ [][\A k \in RequestKeys : RemovedBy(k)]_vars

\* A response has removed a query whose ticket has yet to fire.
C7_Witness ==
    /\ op.name = "BaseNodeResponse"
    /\ events = <<ReceiveBaseNodeResponse(op.request_key)>>
    /\ op.request_key \in utxo_query_timeout_futures
    /\ op.request_key \notin Pending

\* The state of the service but for the tickets is as it was.
NoEffect ==
    /\ UNCHANGED <<db, key_manager, base_node_public_key, pending_utxo_query_keys>>
    /\ events' = << >>
    /\ outbound' = << >>

\* C8: of the response and the timeout of one request key only the first
\* takes effect: a timeout whose key is no longer pending only consumes its
\* ticket, and a response whose key is no longer pending changes nothing and
\* publishes nothing.
C8_LaterOneIsNoOp ==
    [][ /\ op'.name = "UtxoQueryTimeout" /\ op'.request_key \notin Pending
            => /\ NoEffect
               /\ utxo_query_timeout_futures'
                      = utxo_query_timeout_futures \ {op'.request_key}
        /\ op'.name = "BaseNodeResponse" /\ op'.request_key \notin Pending
            => /\ NoEffect
               /\ UNCHANGED utxo_query_timeout_futures ]_vars

\* The ticket of a query that a response had removed has fired.
C8_Witness ==
    /\ op.name = "UtxoQueryTimeout"
    /\ reply.ok
    /\ events = << >>
    /\ db.invalid # {}

\* C9: when the ticket of a pending request key fires, the key is removed,
\* BaseNodeSyncRequestTimedOut of that key is published, and a new entry with
\* a new key and its ticket is there.
C9_TimeoutRetries ==
    [][ op'.name = "UtxoQueryTimeout" /\ op'.request_key \in Pending
            => /\ op'.request_key \notin Pending'
               /\ events' = <<BaseNodeSyncRequestTimedOut(op'.request_key)>>
               /\ \E k \in Pending' \ Pending :
                      k \in utxo_query_timeout_futures' ]_vars

\* The step handles a TransactionOutputs response to a pending request key.
ResponseToPending ==
    /\ op'.name = "BaseNodeResponse"
    /\ op'.response.variant = "TransactionOutputs"
    /\ op'.request_key \in Pending

\* The outputs of `outputs' whose hash the query of the step's response had
\* and the response has not.
Missing(outputs) ==
    { o \in outputs :
        /\ OutputHash(o) \in pending_utxo_query_keys[op'.request_key]
        /\ OutputHash(o) \notin op'.response.outputs }

Returned(outputs) ==
    { o \in outputs :
        /\ OutputHash(o) \in pending_utxo_query_keys[op'.request_key]
        /\ OutputHash(o) \in op'.response.outputs }

\* C10 as stated: a response to a pending request key moves to Invalid
\* exactly the outputs whose hash was queried and is absent from the response,
\* leaves the queried outputs the response has in Unspent, and publishes one
\* ReceiveBaseNodeResponse of the request key.
C10_InvalidatesQueriedNotReturned ==
    [][ ResponseToPending
            => /\ db'.invalid = db.invalid \cup Missing(AllOutputs(db))
               /\ Returned(db.unspent) \subseteq db'.unspent
               /\ events' = <<ReceiveBaseNodeResponse(op'.request_key)>> ]_vars

\* C10: a response to a pending request key moves to Invalid only outputs
\* that are in Unspent when it is handled and whose hash was queried and is
\* absent from the response, and leaves the queried outputs the response has
\* in Unspent; when the handler returns no error it moves all of those, moves
\* nothing else, and publishes one ReceiveBaseNodeResponse of the request
\* key; when it returns an error the event published is Error.
C10_InvalidatesUnspentNotReturned ==
    [][ ResponseToPending
            => /\ db'.invalid \ db.invalid \subseteq Missing(db.unspent)
               /\ Returned(db.unspent) \subseteq db'.unspent
               /\ reply'.ok
                     => /\ db' = [db EXCEPT !.unspent = @ \ Missing(db.unspent),
                                            !.invalid = @ \cup Missing(db.unspent)]
                        /\ events' = <<ReceiveBaseNodeResponse(op'.request_key)>>
               /\ ~reply'.ok => events' = <<ErrorEvent>> ]_vars

\* A response that has one of two queried outputs has been handled: the
\* other is invalid.
C10_Witness ==
    /\ op.name = "BaseNodeResponse"
    /\ reply.ok
    /\ op.response.outputs # {}
    /\ db.invalid # {}
    /\ db.unspent # {}
    /\ events = <<ReceiveBaseNodeResponse(op.request_key)>>

\* C11: a response to a pending request key of which one output does not
\* convert is processed for its other outputs: the queried unspent outputs it
\* has stay in Unspent and those it has not are moved to Invalid.
C11_MalformedOutputSkipped ==
    [][ ResponseToPending /\ op'.response.malformed
            => /\ db'.invalid = db.invalid \cup Missing(db.unspent)
               /\ db'.unspent = db.unspent \ Missing(db.unspent) ]_vars

\* C12: a PrepareToSendTransaction or CreateCoinSplit that fails with
\* BuildError has changed nothing in the store: the partitions, the pending
\* records and the persisted primary_key_index are as before the request.
C12_BuildErrorLeavesStore ==
    [][ /\ op'.name \in {"PrepareToSendTransaction", "CreateCoinSplit"}
        /\ ~reply'.ok
        /\ reply'.type = "BuildError"
        => db' = db ]_vars

\* The first k outputs of uo hold what select_utxos stops at: the amount and
\* the fee without a change output exactly, or at least the amount and the fee
\* with one.
PrefixTotal(uo, k) == SeqSum(SubSeq(uo, 1, k))

PrefixReaches(uo, k, amount, fee_per_gram, output_count) ==
    \/ PrefixTotal(uo, k) = amount + Fee(fee_per_gram, 1, k, output_count)
    \/ PrefixTotal(uo, k) >= amount + Fee(fee_per_gram, 1, k, output_count + 1)

\* A step in which select_utxos ran on the outputs it fetched.
Selects == op'.name = "select_utxos" /\ op'.fail = "none"

\* C13: select_utxos fails with NotEnoughFunds exactly when no prefix of the
\* sorted unspent outputs reaches the amount and its fee, and a request that
\* fails with NotEnoughFunds leaves the store and the key index unchanged.
C13_NotEnoughFundsExactly ==
    [][ /\ Selects =>
              ( (~reply'.ok /\ reply'.type = "NotEnoughFunds")
                <=> ~ \E k \in 0..Len(op'.uo) :
                        PrefixReaches(op'.uo, k, op'.amount, op'.fee_per_gram,
                                      op'.output_count) )
        /\ ~reply'.ok /\ reply'.type = "NotEnoughFunds"
              => db' = db /\ key_manager' = key_manager ]_vars

\* C14: select_utxos with amount 0 returns no inputs and no change only if
\* the fee without change is zero; otherwise it returns one input and requires
\* a change output.
C14_ZeroAmount ==
    [][ Selects /\ op'.amount = 0 /\ reply'.ok
        => IF reply'.val.utxos = << >> /\ ~reply'.val.require_change_output
           THEN Fee(op'.fee_per_gram, 1, 0, op'.output_count) = 0
           ELSE Len(reply'.val.utxos) = 1 /\ reply'.val.require_change_output ]_vars

\* The unspent outputs hold the amount and the fee of a transaction that
\* spends them all without a change output, exactly.
ExactFunds(o) ==
    PrefixTotal(o.uo, Len(o.uo))
        = o.amount + Fee(o.fee_per_gram, 1, Len(o.uo), o.output_count)

\* The length of the shortest prefix of the sorted outputs that reaches the
\* amount and its fee, when one does.
FirstReaching(o) ==
    IF o.uo = << >> THEN 0
    ELSE CHOOSE k \in 1..Len(o.uo) :
           /\ PrefixReaches(o.uo, k, o.amount, o.fee_per_gram, o.output_count)
           /\ \A j \in 1..(k - 1) :
                ~PrefixReaches(o.uo, j, o.amount, o.fee_per_gram, o.output_count)

\* C15 as stated: whenever the unspent outputs hold the amount and the fee
\* without change exactly, select_utxos succeeds without a change output.
C15_ExactFundsNoChange ==
    [][ Selects /\ ExactFunds(op')
        => reply'.ok /\ ~reply'.val.require_change_output ]_vars

\* C15: whenever the unspent outputs hold the amount and the fee without
\* change exactly, select_utxos succeeds; it returns the shortest prefix of the
\* sorted outputs that reaches the amount and its fee, and requires a change
\* output exactly when that prefix holds more than the amount and the fee
\* without change.
C15_ExactFundsSelected ==
    [][ Selects /\ ExactFunds(op')
        => LET k == FirstReaching(op')
           IN /\ reply'.ok
              /\ reply'.val.utxos = SubSeq(op'.uo, 1, k)
              /\ reply'.val.require_change_output
                   <=> PrefixTotal(op'.uo, k)
                         # op'.amount + Fee(op'.fee_per_gram, 1, k, op'.output_count) ]_vars

\* select_utxos has returned all of two or more unspent outputs that hold
\* the amount and the fee exactly, without a change output.
C15_Witness ==
    /\ op.name = "select_utxos"
    /\ op.fail = "none"
    /\ ExactFunds(op)
    /\ Len(op.uo) >= 2
    /\ reply.ok
    /\ reply.val.utxos = op.uo
    /\ ~reply.val.require_change_output

\* What a step took out of Unspent.
Selected == db.unspent \ db'.unspent

\* C16: after a successful PrepareToSendTransaction the selected inputs have
\* moved from Unspent to ShortTermEncumbered under the record of its tx_id,
\* which is short-term; the record holds one change output, which is in
\* PendingIncoming, and primary_key_index has advanced by one, exactly when the
\* selected total is more than the amount and the fee without change, and
\* otherwise PendingIncoming and the index are unchanged.  The reply is Ok only
\* with the record that encumber_outputs wrote.
C16_PrepareEncumbers ==
    [][ op'.name = "PrepareToSendTransaction" /\ reply'.ok
        => /\ HasRecord(db', op'.tx_id)
           /\ ~HasRecord(db, op'.tx_id)
           /\ LET record == db'.pending[op'.tx_id]
                  fee_without_change ==
                      Fee(op'.fee_per_gram, 1, Cardinality(Selected), 1)
              IN /\ record.short_term
                 /\ record.outputs_to_be_spent = Selected
                 /\ Selected # {}
                 /\ db'.unspent = db.unspent \ Selected
                 /\ db'.short_term_encumbered = db.short_term_encumbered \cup Selected
                 /\ db'.encumbered = db.encumbered
                 /\ db'.pending_incoming
                      = db.pending_incoming \cup record.outputs_to_be_received
                 /\ IF SumValues(Selected) > op'.amount + fee_without_change
                    THEN /\ Cardinality(record.outputs_to_be_received) = 1
                         /\ db'.primary_key_index = db.primary_key_index + 1
                    ELSE /\ record.outputs_to_be_received = {}
                         /\ db'.primary_key_index = db.primary_key_index ]_vars

\* A PrepareToSendTransaction has succeeded with a change output.
C16_Witness ==
    /\ op.name = "PrepareToSendTransaction"
    /\ reply.ok
    /\ HasRecord(db, op.tx_id)
    /\ db.pending[op.tx_id].outputs_to_be_spent # {}
    /\ db.pending[op.tx_id].outputs_to_be_spent \subseteq db.short_term_encumbered
    /\ db.pending[op.tx_id].outputs_to_be_received # {}
    /\ db.pending[op.tx_id].outputs_to_be_received \subseteq db.pending_incoming

\* C17: a successful CreateCoinSplit records split_count outputs of
\* amount_per_split and, exactly when the selection required a change output,
\* one more of utxo_total - fee - split_count * amount_per_split; the selected
\* inputs sum to the recorded outputs plus the fee it returns.
C17_CoinSplitOutputs ==
    [][ op'.name = "CreateCoinSplit" /\ reply'.ok
        => /\ HasRecord(db', op'.tx_id)
           /\ LET record == db'.pending[op'.tx_id]
                  inputs == record.outputs_to_be_spent
                  outputs == record.outputs_to_be_received
                  fee == reply'.val.fee
                  utxo_total == reply'.val.utxo_total
                  total_split_amount == op'.amount_per_split * op'.split_count
                  require_change_output ==
                      SumValues(inputs)
                          # total_split_amount
                              + Fee(op'.fee_per_gram, 1, Cardinality(inputs),
                                    op'.split_count)
              IN /\ inputs = Selected
                 /\ utxo_total = SumValues(inputs)
                 /\ fee = Fee(op'.fee_per_gram, 1, Cardinality(inputs),
                              Cardinality(outputs))
                 /\ outputs \subseteq db'.pending_incoming
                 /\ IF require_change_output
                    THEN /\ Cardinality(outputs) = op'.split_count + 1
                         /\ \E residual \in outputs :
                              /\ residual.value = utxo_total - fee - total_split_amount
                              /\ \A o \in outputs \ {residual} :
                                    o.value = op'.amount_per_split
                    ELSE /\ Cardinality(outputs) = op'.split_count
                         /\ \A o \in outputs : o.value = op'.amount_per_split
                 /\ SumValues(inputs) = SumValues(outputs) + fee ]_vars

\* A coin split has recorded its split output and a residual output of
\* another value.
C17_Witness ==
    /\ op.name = "CreateCoinSplit"
    /\ reply.ok
    /\ HasRecord(db, op.tx_id)
    /\ \E o \in db.pending[op.tx_id].outputs_to_be_received :
          o.value = op.amount_per_split
    /\ \E o \in db.pending[op.tx_id].outputs_to_be_received :
          /\ o.value # op.amount_per_split
          /\ o.value = reply.val.utxo_total - reply.val.fee
                         - op.split_count * op.amount_per_split

\* The pending records of d that are in short-term state.
ShortTerm(d) == { t \in DOMAIN d.pending : d.pending[t].short_term }

\* C18: a successful GetRecipientKey or CreateCoinSplit leaves the record of
\* its tx_id out of short-term state; a successful GetCoinbaseKey or
\* PrepareToSendTransaction leaves it in short-term state, which only a
\* ConfirmPendingTransaction of that tx_id ends; a restart removes the records
\* in short-term state and keeps the others as they are.
C18_ShortTermCleared ==
    [][ /\ op'.name \in {"GetRecipientKey", "CreateCoinSplit"} /\ reply'.ok
            => HasRecord(db', op'.tx_id) /\ op'.tx_id \notin ShortTerm(db')
        /\ op'.name \in {"GetCoinbaseKey", "PrepareToSendTransaction"} /\ reply'.ok
            => op'.tx_id \in ShortTerm(db')
        /\ op'.name = "ConfirmPendingTransaction" /\ reply'.ok
            => HasRecord(db', op'.tx_id) /\ op'.tx_id \notin ShortTerm(db')
        /\ \A t \in ShortTerm(db) :
              \/ t \in ShortTerm(db')
              \/ op'.name = "ConfirmPendingTransaction" /\ op'.tx_id = t
              \/ op'.name = "new"
        /\ op'.name = "new"
            => /\ DOMAIN db'.pending = DOMAIN db.pending \ ShortTerm(db)
               /\ \A t \in DOMAIN db'.pending : db'.pending[t] = db.pending[t] ]_vars

\* A restart has kept a record and has removed another, whose key was issued.
C18_Witness ==
    /\ op.name = "new"
    /\ DOMAIN db.pending # {}
    /\ ShortTerm(db) = {}
    /\ db.primary_key_index > Cardinality(db.pending_incoming)

\* The inputs and outputs supplied to a ConfirmTransaction hold the
\* commitment of every output its pending record expects.
Matches(o, record) ==
    /\ Commitments(record.outputs_to_be_spent) \subseteq o.inputs
    /\ Commitments(record.outputs_to_be_received) \subseteq o.outputs

\* C19: ConfirmTransaction succeeds only if every output its record expects
\* to spend is among the supplied inputs and every output it expects to
\* receive is among the supplied outputs, by commitment; when one is not, it
\* returns IncompleteTransaction and leaves the store as it was, so that a
\* CancelTransaction that follows returns the record's spent outputs to
\* Unspent.
C19_IncompleteLeavesRecord ==
    [][ op'.name = "ConfirmTransaction"
        => /\ reply'.ok
                => HasRecord(db, op'.tx_id) /\ Matches(op', db.pending[op'.tx_id])
           /\ ( /\ HasRecord(db, op'.tx_id)
                /\ op'.fail # "fetch_pending_transaction_outputs"
                /\ ~Matches(op', db.pending[op'.tx_id]) )
                => ~reply'.ok /\ reply'.type = "IncompleteTransaction"
           /\ ~reply'.ok /\ reply'.type = "IncompleteTransaction"
                => /\ db' = db
                   /\ HasRecord(db, op'.tx_id)
                   /\ LET cancelled ==
                              cancel_transaction([Self EXCEPT !.db = db'],
                                                 op'.tx_id, "none")
                      IN /\ cancelled.reply.ok
                         /\ db.pending[op'.tx_id].outputs_to_be_spent
                              \subseteq cancelled.self.db.unspent
                         /\ ~HasRecord(cancelled.self.db, op'.tx_id) ]_vars

\* A ConfirmTransaction of a transaction that spends outputs has returned
\* IncompleteTransaction.
C19_Witness ==
    /\ op.name = "ConfirmTransaction"
    /\ ~reply.ok
    /\ reply.type = "IncompleteTransaction"
    /\ HasRecord(db, op.tx_id)
    /\ db.pending[op.tx_id].outputs_to_be_spent # {}
    /\ db.pending[op.tx_id].outputs_to_be_spent \subseteq db.short_term_encumbered

\* C20: after a successful ConfirmTransaction, the same request again fails
\* with the store's error for a record it does not hold and changes nothing.
C20_SecondConfirmFails ==
    op.name = "ConfirmTransaction" /\ reply.ok
    => LET again == confirm_transaction(Self, op.tx_id, op.inputs, op.outputs, "none")
       IN /\ ~again.reply.ok
          /\ again.reply.type = "OutputManagerStorageError"
          /\ again.self = Self

\* A ConfirmTransaction has confirmed a transaction that spent an output and
\* received one.
C20_Witness ==
    /\ op.name = "ConfirmTransaction"
    /\ reply.ok
    /\ op.inputs # {}
    /\ op.outputs # {}
    /\ ~HasRecord(db, op.tx_id)
    /\ \E o \in db.spent : Commitment(o) \in op.inputs
    /\ \E o \in db.unspent : Commitment(o) \in op.outputs

\* C21: after a successful PrepareToSendTransaction, a CancelTransaction of
\* its tx_id succeeds and leaves Unspent, the encumbered outputs and the
\* pending records as they were before the PrepareToSendTransaction: the
\* inputs are back in Unspent, the change output is not in PendingIncoming and
\* the record is gone.
C21_CancelRestoresUnspent ==
    [][ op'.name = "PrepareToSendTransaction" /\ reply'.ok
        => LET cancelled == cancel_transaction([Self EXCEPT !.db = db'],
                                               op'.tx_id, "none")
               d == cancelled.self.db
           IN /\ cancelled.reply.ok
              /\ d.unspent = db.unspent
              /\ d.short_term_encumbered = db.short_term_encumbered
              /\ d.encumbered = db.encumbered
              /\ db'.pending[op'.tx_id].outputs_to_be_received
                     \cap d.pending_incoming = {}
              /\ d.pending = db.pending
              /\ ~HasRecord(d, op'.tx_id) ]_vars

\* A CancelTransaction has cancelled a transaction that
\* PrepareToSendTransaction had prepared with a change output (under SyncSpec
\* no other request creates a record or issues a key).
C21_Witness ==
    /\ op.name = "CancelTransaction"
    /\ reply.ok
    /\ db.primary_key_index >= 1
    /\ db.unspent # {}
    /\ db.short_term_encumbered = {}
    /\ db.pending_incoming = {}
    /\ DOMAIN db.pending = {}

\* The pending records of d that are out of short-term state.
Promoted(d) == DOMAIN d.pending \ ShortTerm(d)

\* C22: a construction of the service over the store of an earlier run leaves
\* the persisted primary_key_index and master seed as they were, starts the
\* key manager from that index, and leaves no record in short-term state and
\* every promoted record as it was, its outputs to be spent in Encumbered; a
\* further construction changes nothing more.
C22_SecondConstruction ==
    [][ op'.name = "new"
        => /\ db'.primary_key_index = db.primary_key_index
           /\ db'.master_seed = db.master_seed
           /\ key_manager' = db.primary_key_index
           /\ ShortTerm(db') = {}
           /\ DOMAIN db'.pending = Promoted(db)
           /\ \A t \in Promoted(db) :
                 /\ db'.pending[t] = db.pending[t]
                 /\ db.pending[t].outputs_to_be_spent \subseteq db'.encumbered
           /\ \A seed \in Seeds : new(db', seed).db = db' ]_vars

\* The service has been constructed over a store whose key index has
\* advanced and that holds a promoted record with outputs to be spent.
C22_Witness ==
    /\ op.name = "new"
    /\ db.primary_key_index >= 1
    /\ key_manager = db.primary_key_index
    /\ \E t \in Promoted(db) : db.pending[t].outputs_to_be_spent # {}

C24_FirstKeyQueries ==
    [][ op'.name = "SetBaseNodePublicKey"
        => /\ base_node_public_key' = op'.pk
           /\ db' = db
           /\ IF base_node_public_key = None
              THEN IF reply'.ok
                   THEN /\ Len(outbound') = 1
                        /\ outbound'[1].to = op'.pk
                        /\ outbound'[1].outputs = { OutputHash(uo) : uo \in db.unspent }
                        /\ outbound'[1].request_key \notin Pending
                        /\ pending_utxo_query_keys'
                             = MapInsert(pending_utxo_query_keys,
                                         outbound'[1].request_key, outbound'[1].outputs)
                        /\ utxo_query_timeout_futures'
                             = utxo_query_timeout_futures \cup {outbound'[1].request_key}
                   ELSE /\ reply'.type \in {"OutputManagerStorageError", "OutboundError"}
                        /\ outbound' = << >>
                        /\ pending_utxo_query_keys' = pending_utxo_query_keys
                        /\ utxo_query_timeout_futures' = utxo_query_timeout_futures
              ELSE /\ reply'.ok
                   /\ outbound' = << >>
                   /\ pending_utxo_query_keys' = pending_utxo_query_keys
                   /\ utxo_query_timeout_futures' = utxo_query_timeout_futures ]_vars

\* A later SetBaseNodePublicKey has set another key while the query of the
\* first one is in flight.
C24_Witness ==
    /\ op.name = "SetBaseNodePublicKey"
    /\ reply.ok
    /\ outbound = << >>
    /\ Pending # {}
    /\ Pending \subseteq utxo_query_timeout_futures
    /\ base_node_public_key = op.pk

\* C25: a SyncWithBaseNode while no base node public key is set fails with
\* NoBaseNodeKeysProvided: it sends nothing, records no pending query, pushes
\* no ticket and changes nothing else.
C25_SyncNeedsKey ==
    [][ op'.name = "SyncWithBaseNode" /\ base_node_public_key = None
        => /\ ~reply'.ok
           /\ reply'.type = "NoBaseNodeKeysProvided"
           /\ outbound' = << >>
           /\ events' = << >>
           /\ pending_utxo_query_keys' = pending_utxo_query_keys
           /\ utxo_query_timeout_futures' = utxo_query_timeout_futures
           /\ db' = db
           /\ base_node_public_key' = None ]_vars

\* A SyncWithBaseNode of a wallet with unspent outputs has failed for want of
\* a base node public key.
C25_Witness ==
    /\ op.name = "SyncWithBaseNode"
    /\ ~reply.ok
    /\ reply.type = "NoBaseNodeKeysProvided"
    /\ base_node_public_key = None
    /\ db.unspent # {}
    /\ Pending = {}
    /\ utxo_query_timeout_futures = {}

\* C26: a base node response whose request key is not pending, or that is
\* not of the TransactionOutputs variant, is dropped: the handler returns Ok,
\* publishes no event and leaves the store, the pending queries and their
\* tickets as they were.
C26_ResponseDropped ==
    [][ /\ op'.name = "BaseNodeResponse"
        /\ \/ op'.response.request_key \notin Pending
           \/ op'.response.variant # "TransactionOutputs"
        => /\ reply'.ok
           /\ events' = << >>
           /\ outbound' = << >>
           /\ db' = db
           /\ pending_utxo_query_keys' = pending_utxo_query_keys
           /\ utxo_query_timeout_futures' = utxo_query_timeout_futures ]_vars

\* A response of another variant has come for a request key that is pending
\* with the hashes of unspent outputs.
C26_Witness ==
    /\ op.name = "BaseNodeResponse"
    /\ op.response.variant # "TransactionOutputs"
    /\ op.response.request_key \in Pending
    /\ pending_utxo_query_keys[op.response.request_key] # {}
    /\ db.unspent # {}
    /\ reply.ok

\* C27: an error of the base node response handler is published as an Error
\* event, is sent on no reply channel and leaves the loop running; an error
\* of the timeout handler is sent on no reply channel either and leaves the
\* loop running; and the reply of every request is what its own handler
\* returned.
C27_StreamErrorsContained ==
    [][ /\ op'.name = "BaseNodeResponse" /\ ~reply'.ok
            => /\ events' = <<ErrorEvent>>
               /\ reply_tx' = << >>
               /\ pc' = "loop"
        /\ op'.name = "UtxoQueryTimeout" /\ ~reply'.ok
            => /\ reply_tx' = << >>
               /\ pc' = "loop"
        /\ op'.name \in {"AddOutput", "SetBaseNodePublicKey", "SyncWithBaseNode"}
            => reply_tx' = <<reply'>> ]_vars

\* The response handler has failed on a response to a pending query, after
\* the request stream ended.
C27_Witness ==
    /\ op.name = "BaseNodeResponse"
    /\ ~reply.ok
    /\ events = <<ErrorEvent>>
    /\ op.response.variant = "TransactionOutputs"
    /\ request_stream = "closed"
    /\ pc = "loop"

\* C28: the loop ends only when the request stream and the base node response
\* stream have ended and no timeout ticket is outstanding, and its end
\* publishes no event and changes nothing of the wallet.
C28_LoopEndsWhenAllStreamsEnd ==
    [][ pc' = "ended" /\ pc = "loop"
        => /\ request_stream = "closed"
           /\ base_node_response_stream = "closed"
           /\ utxo_query_timeout_futures = {}
           /\ events' = << >>
           /\ db' = db ]_vars

\* The loop has ended in a wallet that had queried a base node for its outputs.
C28_Witness ==
    /\ pc = "ended"
    /\ op.name = "complete"
    /\ base_node_public_key # None
    /\ db.unspent # {}
    /\ utxo_query_timeout_futures = {}

\* C29: with a query in flight and no response to it, the query is retried
\* for ever: the timeout of a pending query leaves a newly sent query pending,
\* and every pending query that no response is handled for leads to the
\* BaseNodeSyncRequestTimedOut of its key.
C29_RetriedIndefinitely ==
    /\ [][ op'.name = "UtxoQueryTimeout" /\ op'.request_key \in Pending
              => /\ Pending' # {}
                 /\ outbound' # << >> ]_vars
    /\ \A k \in RequestKeys :
          (k \in Pending)
              ~> \/ events = <<BaseNodeSyncRequestTimedOut(k)>>
                 \/ op.name = "BaseNodeResponse" /\ op.request_key = k

\* The record of the call's tx_id expects one output to be received and its
\* commitment is the one observed.
OneExpected(o, record) ==
    /\ Cardinality(record.outputs_to_be_received) = 1
    /\ Commitments(record.outputs_to_be_received) = {o.received_output}

\* C30: confirm_received_transaction_output confirms the pending record of
\* tx_id only if the record expects exactly one output to be received and the
\* commitment of that output is the one observed; for a record that does not,
\* it returns IncompleteTransaction; and whenever it returns an error the
\* store is as it was.
C30_ConfirmsTheOneExpected ==
    [][ op'.name = "confirm_received_transaction_output"
        => /\ reply'.ok
                => /\ HasRecord(db, op'.tx_id)
                   /\ OneExpected(op', db.pending[op'.tx_id])
                   /\ db' = confirm_pending_transaction_outputs(db, op'.tx_id).db
           /\ ( /\ HasRecord(db, op'.tx_id)
                /\ op'.fail # "fetch_pending_transaction_outputs"
                /\ ~OneExpected(op', db.pending[op'.tx_id]) )
                => ~reply'.ok /\ reply'.type = "IncompleteTransaction"
           /\ ~reply'.ok => db' = db ]_vars

\* The call was of the commitment of one of the two outputs that the record
\* of a coin split expects, and has returned IncompleteTransaction.
C30_Witness ==
    /\ op.name = "confirm_received_transaction_output"
    /\ ~reply.ok
    /\ reply.type = "IncompleteTransaction"
    /\ HasRecord(db, op.tx_id)
    /\ Cardinality(db.pending[op.tx_id].outputs_to_be_received) = 2
    /\ op.received_output \in Commitments(db.pending[op.tx_id].outputs_to_be_received)

\* The outputs of the store whose spending key the key manager derived.
DerivedOutputs(d) == { o \in AllOutputs(d) : KeyIndexOf(o.spending_key) > 0 }

\* C31: across requests, failures of the store and restarts over the same
\* store, no two outputs recorded in the store have spending keys derived
\* from the same key index.
C31_KeyIndexUsedOnce ==
    \A o1, o2 \in DerivedOutputs(db) :
        KeyIndexOf(o1.spending_key) = KeyIndexOf(o2.spending_key) => o1 = o2

\* C32: a base node response moves to Invalid only outputs that are in
\* Unspent when it is handled and whose hash its query had: the outputs
\* encumbered or spent since the query stay where they are, and the unspent
\* outputs the query did not have (added since) stay in Unspent.
C32_InvalidatesOnlyUnspentQueried ==
    [][ op'.name = "BaseNodeResponse"
        => /\ db'.invalid \ db.invalid
                 \subseteq { o \in db.unspent : OutputHash(o) \in op'.queried_hashes }
           /\ { o \in db.unspent : OutputHash(o) \notin op'.queried_hashes }
                 \subseteq db'.unspent
           /\ db'.short_term_encumbered = db.short_term_encumbered
           /\ db'.encumbered = db.encumbered
           /\ db'.spent = db.spent
           /\ db'.pending_incoming = db.pending_incoming
           /\ db'.pending = db.pending ]_vars

\* A response that returns nothing has been handled after an output of its
\* query was encumbered and another output was added: neither is invalid.
C32_Witness ==
    /\ op.name = "BaseNodeResponse"
    /\ reply.ok
    /\ events = <<ReceiveBaseNodeResponse(op.request_key)>>
    /\ op.response.outputs = {}
    /\ \E o \in db.short_term_encumbered : OutputHash(o) \in op.queried_hashes
    /\ \E o \in db.unspent : OutputHash(o) \notin op.queried_hashes
    /\ db.invalid = {}

\* The sequence holds the outputs of the set, each once, by maturity
\* ascending and, of one maturity, by value ascending.
InStrategyOrder(uo, outputs) ==
    /\ { uo[i] : i \in 1..Len(uo) } = outputs
    /\ Len(uo) = Cardinality(outputs)
    /\ \A i, j \in 1..Len(uo) :
          i < j => \/ uo[i].features.maturity < uo[j].features.maturity
                   \/ /\ uo[i].features.maturity = uo[j].features.maturity
                      /\ uo[i].value <= uo[j].value

\* C33: when select_utxos succeeds, the inputs it returns are a prefix of the
\* unspent outputs in the order of the strategy (maturity ascending, then
\* value ascending), and no shorter non-empty prefix has a total that is the
\* amount and the fee without change or reaches the amount and the fee with
\* change.
C33_ShortestPrefix ==
    [][ Selects /\ reply'.ok
        => /\ InStrategyOrder(op'.uo, db.unspent)
           /\ \E k \in 0..Len(op'.uo) :
                 /\ reply'.val.utxos = SubSeq(op'.uo, 1, k)
                 /\ \A j \in 1..(k - 1) :
                       ~PrefixReaches(op'.uo, j, op'.amount, op'.fee_per_gram,
                                      op'.output_count) ]_vars

\* select_utxos has returned the first of three unspent outputs: the one of
\* maturity 0, of a larger value than the two of maturity 1.
C33_Witness ==
    /\ op.name = "select_utxos"
    /\ op.fail = "none"
    /\ reply.ok
    /\ Len(op.uo) = 3
    /\ reply.val.utxos = <<op.uo[1]>>
    /\ op.uo[1].value > op.uo[2].value
    /\ op.uo[1].features.maturity < op.uo[2].features.maturity

\* C34: the flag select_utxos returns for one output agrees with the decision
\* prepare_transaction_to_send takes from the inputs selected (their total is
\* more than the amount and the fee without change), and a
\* PrepareToSendTransaction records a change output exactly when the flag of
\* the selection it discarded was set.
C34_ChangeDecisionAgrees ==
    [][ /\ Selects /\ op'.output_count = 1 /\ reply'.ok
            => ( reply'.val.require_change_output
                 <=> SeqSum(reply'.val.utxos)
                       > op'.amount + Fee(op'.fee_per_gram, 1,
                                          Len(reply'.val.utxos), 1) )
        /\ op'.name = "PrepareToSendTransaction" /\ reply'.ok
            => \A uo \in SortedOrders(db.unspent) :
                 LET sel == select_utxos(uo, op'.amount, op'.fee_per_gram, 1, "none")
                 IN /\ sel.ok
                    /\ sel.require_change_output <=> Received(db', op'.tx_id) # {} ]_vars

\* select_utxos for one output and fee_per_gram 0 has returned two inputs
\* whose total is the amount, without a change output.
C34_Witness ==
    /\ op.name = "select_utxos"
    /\ op.fail = "none"
    /\ op.output_count = 1
    /\ op.fee_per_gram = 0
    /\ reply.ok
    /\ Len(reply.val.utxos) = 2
    /\ SeqSum(reply.val.utxos) = op.amount
    /\ ~reply.val.require_change_output

\* What create_coin_split computes from a selection: the amount of all the
\* splits, the total of the inputs and the fee of the transaction it builds.
SplitOf(o, uo) ==
    LET total_split_amount == o.amount_per_split * o.split_count
        sel == select_utxos(uo, total_split_amount, o.fee_per_gram, o.split_count,
                            "none")
    IN [ok |-> sel.ok,
        total_split_amount |-> total_split_amount,
        utxo_total |-> IF sel.ok THEN SeqSum(sel.utxos) ELSE 0,
        fee |-> IF sel.ok
                THEN Fee(o.fee_per_gram, 1, Len(sel.utxos),
                         IF sel.require_change_output THEN o.split_count + 1
                         ELSE o.split_count)
                ELSE 0]

\* C35: in create_coin_split, whenever select_utxos has succeeded, the total
\* of the inputs holds the fee and the amount of all the splits, so that the
\* checked subtractions do not return NotEnoughFunds: a CreateCoinSplit
\* returns NotEnoughFunds only from select_utxos, and then has issued no key.
C35_SubtractionNeverUnderflows ==
    [][ op'.name = "CreateCoinSplit"
        => \A uo \in SortedOrders(db.unspent) :
             LET split == SplitOf(op', uo)
             IN /\ split.ok
                    => split.utxo_total >= split.fee + split.total_split_amount
                /\ ~reply'.ok /\ reply'.type = "NotEnoughFunds"
                    => /\ ~split.ok
                       /\ key_manager' = key_manager
                       /\ db' = db ]_vars

\* The change output of the record of a coin split that has one: the output
\* the last of its keys was issued for.
ChangeOutput(d, tx_id) ==
    CHOOSE o \in Received(d, tx_id) :
        \A p \in Received(d, tx_id) :
            KeyIndexOf(p.spending_key) <= KeyIndexOf(o.spending_key)

\* C36: the change output that a CreateCoinSplit records in PendingIncoming,
\* the output beyond its split_count outputs, has a value above zero.
C36_ChangeOutputPositive ==
    [][ /\ op'.name = "CreateCoinSplit"
        /\ reply'.ok
        /\ Cardinality(Received(db', op'.tx_id)) = op'.split_count + 1
        => /\ ChangeOutput(db', op'.tx_id) \in db'.pending_incoming
           /\ ChangeOutput(db', op'.tx_id).value > 0 ]_vars

\* C37: when the query of the first SetBaseNodePublicKey fails, the request
\* returns the error of the query, nothing is sent, no pending query and no
\* ticket are created, the key is set all the same, and a SetBaseNodePublicKey
\* after it returns Ok and queries nothing.
C37_FailedFirstQueryKeepsKey ==
    [][ op'.name = "SetBaseNodePublicKey" /\ base_node_public_key = None /\ ~reply'.ok
        => /\ reply'.type \in {"OutputManagerStorageError", "OutboundError"}
           /\ outbound' = << >>
           /\ pending_utxo_query_keys' = pending_utxo_query_keys
           /\ utxo_query_timeout_futures' = utxo_query_timeout_futures
           /\ base_node_public_key' = op'.pk
           /\ \A pk \in PublicKeys, request_key \in RequestKeys :
                 LET after == [Self EXCEPT !.base_node_public_key = base_node_public_key']
                     later == set_base_node_public_key(after, pk, request_key, "none")
                 IN /\ later.reply.ok
                    /\ later.self = [after EXCEPT !.base_node_public_key = pk] ]_vars

\* The send of the query of the first SetBaseNodePublicKey has failed in a
\* wallet with unspent outputs: the key is set and no query is pending.
C37_Witness ==
    /\ op.name = "SetBaseNodePublicKey"
    /\ ~reply.ok
    /\ reply.type = "OutboundError"
    /\ base_node_public_key = op.pk
    /\ Pending = {}
    /\ utxo_query_timeout_futures = {}
    /\ db.unspent # {}

=============================================================================
